---- MODULE Spec2Model ----
(***************************************************************************)
(* Model of the survey builder's tree assembly and mutation layer          *)
(* (survey_elements/survey.py, survey_elements/modules.py), its            *)
(* define/insert resolver and the row decoder                              *)
(* (survey_elements/parsing/xml_parser.py).                                *)
(*                                                                         *)
(* Python lists and tuples are sequences (index 0 of the code is index 1   *)
(* here).  Objects with identity (modules, questions) are numbered, and    *)
(* the mutable ones live in heaps indexed by their number.                 *)
(***************************************************************************)
EXTENDS Integers, Sequences, FiniteSets, TLC

VARIABLES
    modules,        \* Survey.modules: list of Module objects (by number)
    main,           \* Module.main of every Module object: its tree
    qs,             \* heap of Question objects: title, rows, historic_define_refs
    user_defines,   \* Survey.user_defines: label -> Define
    xml_in,         \* the XML element handed to the decoder
    DEFINES,        \* the _DEFINES registry of each parsing module
    parsed,         \* what the decoder returned (or that it raised)
    last            \* the last call made: operation, arguments, exception, result

vars == <<modules, main, qs, user_defines, xml_in, DEFINES, parsed, last>>

(***************************************************************************)
(* Bounds of the model.                                                    *)
(***************************************************************************)
NumMods == 3        \* Module objects that exist
NumCodes == 2       \* distinct project codes among them
MaxIdx == 2         \* index arguments range over -MaxIdx..MaxIdx
MaxSeqLen == 2      \* longest reorder sequence tried

ModIds == 1..NumMods
Codes == 1..NumCodes
UnknownCode == NumCodes + 1    \* a project code no Module object has
Indices == (0 - MaxIdx)..MaxIdx

NoneVal == "None"

(***************************************************************************)
(* Module objects.  project_code is the last component of project_path;    *)
(* two Module objects loaded from different folders can share it.          *)
(***************************************************************************)
Module(i) ==
    [title |-> i,
     project_path |-> [parent |-> i, name |-> ((i - 1) % NumCodes) + 1]]

project_code(m) == Module(m).project_path.name

(***************************************************************************)
(* Python list primitives.                                                 *)
(***************************************************************************)
Min(a, b) == IF a < b THEN a ELSE b
Max(a, b) == IF a > b THEN a ELSE b

\* list[i] / list.pop(i): negative indices count from the end
NormIdx(i, n) == IF i < 0 THEN i + n ELSE i
InRange(i, n) == NormIdx(i, n) >= 0 /\ NormIdx(i, n) < n

ListGet(s, i) == s[NormIdx(i, Len(s)) + 1]

ListPop(s, i) ==
    LET j == NormIdx(i, Len(s)) + 1
    IN  SubSeq(s, 1, j - 1) \o SubSeq(s, j + 1, Len(s))

\* list.insert(i, x): the index is clamped, it never raises
ListInsert(s, i, x) ==
    LET j == IF i < 0 THEN Max(i + Len(s), 0) ELSE Min(i, Len(s))
    IN  SubSeq(s, 1, j) \o <<x>> \o SubSeq(s, j + 1, Len(s))

ListSet(s, i, x) == [s EXCEPT ![NormIdx(i, Len(s)) + 1] = x]

(***************************************************************************)
(* The record of the last call: operation, arguments, the object state    *)
(* the call started from, the exception it raised (NoneVal when it         *)
(* returned) and the value it returned (0 when it returned None).          *)
(***************************************************************************)
Call(op, args, before, raised, ret) ==
    [op |-> op, args |-> args, before |-> before, raised |-> raised, ret |-> ret]

NoArgs == [none |-> TRUE]
NoCall == Call("init", NoArgs, <<>>, NoneVal, 0)

(***************************************************************************)
(* Survey: lookups.                                                        *)
(***************************************************************************)
\* Survey.index_of: first index with the code, or -1 standing for ValueError
index_of(ms, code) ==
    IF \E i \in 1..Len(ms) : project_code(ms[i]) = code
    THEN (CHOOSE i \in 1..Len(ms) :
            /\ project_code(ms[i]) = code
            /\ \A j \in 1..(i - 1) : project_code(ms[j]) # code) - 1
    ELSE -1

dup_check(ms, code) == \E i \in 1..Len(ms) : project_code(ms[i]) = code

(***************************************************************************)
(* Survey: module list operations.  Each returns the exception raised      *)
(* (NoneVal when the call returns) and the module list after the call.     *)
(* Survey.invalidate_cache pops no cached property (names is empty), so    *)
(* it changes nothing.                                                     *)
(***************************************************************************)
Outcome(raised, ms, ret) == [raised |-> raised, modules |-> ms, ret |-> ret]

\* add without the duplicate check
add_unchecked(ms, m) == Outcome(NoneVal, Append(ms, m), 0)

\* insert without the duplicate check
insert_unchecked(ms, index, m) == Outcome(NoneVal, ListInsert(ms, index, m), 0)

add(ms, m) ==
    IF dup_check(ms, project_code(m))
    THEN Outcome("ValueError", ms, 0)
    ELSE Outcome(NoneVal, Append(ms, m), 0)

insert(ms, index, m) ==
    IF dup_check(ms, project_code(m))
    THEN Outcome("ValueError", ms, 0)
    ELSE Outcome(NoneVal, ListInsert(ms, index, m), 0)

remove_at(ms, index) ==
    IF ~InRange(index, Len(ms))
    THEN Outcome("IndexError", ms, 0)
    ELSE Outcome(NoneVal, ListPop(ms, index), ListGet(ms, index))

remove(ms, code) ==
    LET idx == index_of(ms, code)
    IN  IF idx < 0
        THEN Outcome("ValueError", ms, 0)
        ELSE Outcome(NoneVal, ListPop(ms, idx), ListGet(ms, idx))

move(ms, old_index, new_index) ==
    IF ~InRange(old_index, Len(ms))
    THEN Outcome("IndexError", ms, 0)
    ELSE Outcome(NoneVal,
                 ListInsert(ListPop(ms, old_index), new_index, ListGet(ms, old_index)),
                 0)

move_by_code(ms, code, new_index) ==
    LET idx == index_of(ms, code)
    IN  IF idx < 0
        THEN Outcome("ValueError", ms, 0)
        ELSE move(ms, idx, new_index)

\* both right-hand sides are read before either element is assigned
swap(ms, index_a, index_b) ==
    IF ~InRange(index_b, Len(ms)) \/ ~InRange(index_a, Len(ms))
    THEN Outcome("IndexError", ms, 0)
    ELSE Outcome(NoneVal,
                 ListSet(ListSet(ms, index_a, ListGet(ms, index_b)),
                         index_b, ListGet(ms, index_a)),
                 0)

\* {m.project_code: m for m in self.modules}: a later module overwrites an
\* earlier one with the same code
code_to_mod(ms) ==
    [c \in {project_code(ms[i]) : i \in 1..Len(ms)} |->
        ms[CHOOSE i \in 1..Len(ms) :
              /\ project_code(ms[i]) = c
              /\ \A j \in (i + 1)..Len(ms) : project_code(ms[j]) # c]]

\* the for loop of reorder: pops each code of the order from the dict
RECURSIVE reorder_loop(_, _, _, _)
reorder_loop(order, k, dict, new_list) ==
    IF k > Len(order)
    THEN [raised |-> NoneVal, dict |-> dict, new_list |-> new_list]
    ELSE IF order[k] \notin DOMAIN dict
    THEN [raised |-> "ValueError", dict |-> dict, new_list |-> new_list]
    ELSE reorder_loop(order, k + 1,
                      [c \in (DOMAIN dict) \ {order[k]} |-> dict[c]],
                      Append(new_list, dict[order[k]]))

\* reorder that validates the order but keeps the old list
reorder_not_applied(ms, project_code_order) ==
    IF Len(project_code_order) = 1 \/ Len(ms) = 1
    THEN Outcome(NoneVal, ms, 0)
    ELSE LET r == reorder_loop(project_code_order, 1, code_to_mod(ms), <<>>)
         IN  IF r.raised # NoneVal \/ DOMAIN r.dict # {}
             THEN Outcome("ValueError", ms, 0)
             ELSE Outcome(NoneVal, ms, 0)

reorder(ms, project_code_order) ==
    IF Len(project_code_order) = 1 \/ Len(ms) = 1
    THEN Outcome(NoneVal, ms, 0)      \* "reorder pointless": returns
    ELSE LET r == reorder_loop(project_code_order, 1, code_to_mod(ms), <<>>)
         IN  IF r.raised # NoneVal
             THEN Outcome("ValueError", ms, 0)
             ELSE IF DOMAIN r.dict # {}
             THEN Outcome("ValueError", ms, 0)
             ELSE Outcome(NoneVal, r.new_list, 0)

(***************************************************************************)
(* Tree nodes.  A Block or a Loop holds a tuple of children; a Question    *)
(* is a leaf whose mutable fields live in the heap qs; Suspend stands for  *)
(* the leaves that are no Question.  id is the object's identity.          *)
(***************************************************************************)
Node(kind, id, children) == [kind |-> kind, id |-> id, children |-> children]

QIds == {1, 2, 3}
Titles == {"A", "B"}
title_of == [q \in QIds |-> IF q = 3 THEN "B" ELSE "A"]

Absent == [some |-> FALSE, val |-> <<>>]      \* Optional[...] = None
Some(v) == [some |-> TRUE, val |-> v]

\* a Python value is falsy when it is None or an empty tuple
Falsy(opt) == ~opt.some \/ opt.val = <<>>

EmptyMain == Node("Block", 0, <<>>)
NoQuestions ==
    [q \in QIds |-> [title |-> title_of[q], rows |-> <<>>,
                     historic_define_refs |-> Absent]]
NoDefines == [l \in {} |-> Absent]
Parsers == {"xml_parser", "xml"}       \* parsing/xml_parser.py and parsing/xml.py
NoRegistries == [p \in Parsers |-> NoDefines]
NoXml == [defines |-> <<>>, children |-> <<>>]
NotParsed == [raised |-> NoneVal, rows |-> <<>>]

(***************************************************************************)
(* Survey as a state machine: the module list operations.                  *)
(***************************************************************************)
rest == <<main, qs, user_defines, xml_in, DEFINES, parsed>>

CodeSeqs(n) == UNION {[1..k -> Codes \cup {UnknownCode}] : k \in 0..n}

Survey_add ==
    \E m \in ModIds :
        LET r == add(modules, m)
        IN  /\ modules' = r.modules
            /\ last' = Call("add", [module |-> m], modules, r.raised, r.ret)
            /\ UNCHANGED rest

Survey_insert ==
    \E m \in ModIds, i \in Indices :
        LET r == insert(modules, i, m)
        IN  /\ modules' = r.modules
            /\ last' = Call("insert", [module |-> m, index |-> i], modules, r.raised, r.ret)
            /\ UNCHANGED rest

Survey_remove_at ==
    \E i \in Indices :
        LET r == remove_at(modules, i)
        IN  /\ modules' = r.modules
            /\ last' = Call("remove_at", [index |-> i], modules, r.raised, r.ret)
            /\ UNCHANGED rest

Survey_remove ==
    \E c \in Codes \cup {UnknownCode} :
        LET r == remove(modules, c)
        IN  /\ modules' = r.modules
            /\ last' = Call("remove", [project_code |-> c], modules, r.raised, r.ret)
            /\ UNCHANGED rest

Survey_move ==
    \E i \in Indices, j \in Indices :
        LET r == move(modules, i, j)
        IN  /\ modules' = r.modules
            /\ last' = Call("move", [old_index |-> i, new_index |-> j], modules, r.raised, r.ret)
            /\ UNCHANGED rest

Survey_move_by_code ==
    \E c \in Codes \cup {UnknownCode}, j \in Indices :
        LET r == move_by_code(modules, c, j)
        IN  /\ modules' = r.modules
            /\ last' = Call("move_by_code", [project_code |-> c, new_index |-> j], modules,
                            r.raised, r.ret)
            /\ UNCHANGED rest

Survey_swap ==
    \E i \in Indices, j \in Indices :
        LET r == swap(modules, i, j)
        IN  /\ modules' = r.modules
            /\ last' = Call("swap", [index_a |-> i, index_b |-> j], modules, r.raised, r.ret)
            /\ UNCHANGED rest

Survey_reorder ==
    \E order \in CodeSeqs(MaxSeqLen) :
        LET r == reorder(modules, order)
        IN  /\ modules' = r.modules
            /\ last' = Call("reorder", [project_code_order |-> order], modules, r.raised, r.ret)
            /\ UNCHANGED rest

\* Survey(title, survey_id): no modules, no user defines
Init ==
    /\ modules = <<>>
    /\ main = [m \in ModIds |-> EmptyMain]
    /\ qs = NoQuestions
    /\ user_defines = NoDefines
    /\ xml_in = NoXml
    /\ DEFINES = NoRegistries
    /\ parsed = NotParsed
    /\ last = NoCall

Next ==
    \/ Survey_add
    \/ Survey_insert
    \/ Survey_remove_at
    \/ Survey_remove
    \/ Survey_move
    \/ Survey_move_by_code
    \/ Survey_swap
    \/ Survey_reorder

Spec == Init /\ [][Next]_vars

(***************************************************************************)
(* Module: views of the tree.                                              *)
(***************************************************************************)
IsContainer(node) == node.kind \in {"Block", "Loop"}

\* Module._iter_objects_from(nodes, None): every node in document order,
\* descending into whatever has a non-empty children tuple
RECURSIVE iter_objects_from(_)
RECURSIVE iter_objects_from_blocks(_)

\* _iter_objects_from descending into Blocks alone
iter_objects_from_blocks(nodes) ==
    IF nodes = <<>>
    THEN <<>>
    ELSE LET node == Head(nodes)
         IN  <<node>>
             \o (IF node.kind = "Block" /\ node.children # <<>>
                 THEN iter_objects_from_blocks(node.children) ELSE <<>>)
             \o iter_objects_from_blocks(Tail(nodes))

iter_objects_from(nodes) ==
    IF nodes = <<>>
    THEN <<>>
    ELSE LET node == Head(nodes)
         IN  <<node>>
             \o (IF node.children # <<>> THEN iter_objects_from(node.children) ELSE <<>>)
             \o iter_objects_from(Tail(nodes))

\* Module.objects
objects(m_main) == iter_objects_from(<<m_main>>)

(***************************************************************************)
(* Module: deletion.  A match is either "x is target" (delete_object) or   *)
(* "x is a Question whose title is title" (delete_question_by_title).      *)
(***************************************************************************)
IsTarget(target) == [by |-> "is", kind |-> target.kind, id |-> target.id, title |-> ""]
HasTitle(title) == [by |-> "title", kind |-> "Question", id |-> 0, title |-> title]

Match(match, x) ==
    IF match.by = "is"
    THEN x.kind = match.kind /\ x.id = match.id
    ELSE x.kind = "Question" /\ qs[x.id].title = match.title

RECURSIVE _prune_children(_, _)
RECURSIVE prune_loop(_, _, _, _, _)
RECURSIVE prune_loop_blocks_only(_, _, _, _, _)

\* the loop of _prune_children with isinstance(ch, Block) for
\* isinstance(ch, (Block, Loop))
prune_loop_blocks_only(children, k, match, new_children, removed) ==
    IF k > Len(children)
    THEN [new_children |-> new_children, removed |-> removed]
    ELSE LET ch == children[k]
         IN  IF Match(match, ch)
             THEN prune_loop_blocks_only(children, k + 1, match, new_children, removed + 1)
             ELSE IF ch.kind = "Block"
             THEN LET r == _prune_children(ch, match)
                  IN  prune_loop_blocks_only(children, k + 1, match,
                                             Append(new_children, r.node),
                                             removed + r.removed)
             ELSE prune_loop_blocks_only(children, k + 1, match,
                                         Append(new_children, ch), removed)

\* for ch in children: a matching child is dropped and counted, a Block or
\* Loop that stays is pruned in turn
prune_loop(children, k, match, new_children, removed) ==
    IF k > Len(children)
    THEN [new_children |-> new_children, removed |-> removed]
    ELSE LET ch == children[k]
         IN  IF Match(match, ch)
             THEN prune_loop(children, k + 1, match, new_children, removed + 1)
             ELSE IF IsContainer(ch)
             THEN LET r == _prune_children(ch, match)
                  IN  prune_loop(children, k + 1, match,
                                 Append(new_children, r.node), removed + r.removed)
             ELSE prune_loop(children, k + 1, match, Append(new_children, ch), removed)

_prune_children(node, match) ==
    IF node.children = <<>>
    THEN [node |-> node, removed |-> 0]
    ELSE LET r == prune_loop(node.children, 1, match, <<>>, 0)
         IN  [node |-> IF r.removed # 0
                       THEN [node EXCEPT !.children = r.new_children]
                       ELSE node,
              removed |-> r.removed]

\* Module.invalidate_cache pops no cached property: nothing else changes
delete_object(m_main, target) == _prune_children(m_main, IsTarget(target))

delete_question_by_title(m_main, title) == _prune_children(m_main, HasTitle(title))

(***************************************************************************)
(* Trees to prune: every forest of at most MaxNodes nodes below the main   *)
(* block, over three Question objects, Suspend, Block and Loop.  Each      *)
(* Block and Loop is a distinct object, numbered in document order.        *)
(***************************************************************************)
MaxNodes == 3

Leaves == {Node("Question", q, <<>>) : q \in QIds} \cup {Node("Suspend", 0, <<>>)}

RECURSIVE Forests(_)
TreesOfSize(n) ==
    (IF n = 1 THEN Leaves ELSE {})
    \cup {Node(kind, 0, f) : kind \in {"Block", "Loop"}, f \in Forests(n - 1)}

Forests(n) ==
    IF n = 0
    THEN {<<>>}
    ELSE UNION {{<<t>> \o f : t \in TreesOfSize(k), f \in Forests(n - k)} : k \in 1..n}

RECURSIVE NumberForest(_, _)
NumberNode(node, n) ==
    IF IsContainer(node)
    THEN LET r == NumberForest(node.children, n + 1)
         IN  [node |-> Node(node.kind, n, r.forest), next |-> r.next]
    ELSE [node |-> node, next |-> n]

NumberForest(f, n) ==
    IF f = <<>>
    THEN [forest |-> <<>>, next |-> n]
    ELSE LET h == NumberNode(Head(f), n)
             t == NumberForest(Tail(f), h.next)
         IN  [forest |-> <<h.node>> \o t.forest, next |-> t.next]

MainBlocks ==
    {Node("Block", 0, NumberForest(f, 1).forest) :
        f \in UNION {Forests(n) : n \in 0..MaxNodes}}

Targets ==
    {[kind |-> "Question", id |-> q] : q \in QIds}
    \cup {[kind |-> "Suspend", id |-> 0]}
    \cup {[kind |-> k, id |-> i] : k \in {"Block", "Loop"}, i \in 0..MaxNodes}

Module_delete_object ==
    \E m \in ModIds, target \in Targets :
        LET r == delete_object(main[m], target)
        IN  /\ \E i \in 1..Len(modules) : modules[i] = m
            /\ main' = [main EXCEPT ![m] = r.node]
            /\ last' = Call("delete_object", [module |-> m, match |-> IsTarget(target)],
                            main[m], NoneVal, r.removed)
            /\ UNCHANGED <<modules, qs, user_defines, xml_in, DEFINES, parsed>>

Module_delete_question_by_title ==
    \E m \in ModIds, title \in Titles :
        LET r == delete_question_by_title(main[m], title)
        IN  /\ \E i \in 1..Len(modules) : modules[i] = m
            /\ main' = [main EXCEPT ![m] = r.node]
            /\ last' = Call("delete_question_by_title",
                            [module |-> m, match |-> HasTitle(title)],
                            main[m], NoneVal, r.removed)
            /\ UNCHANGED <<modules, qs, user_defines, xml_in, DEFINES, parsed>>

\* a survey of one module whose tree is any of MainBlocks
InitPrune ==
    /\ modules = <<1>>
    /\ main \in {[m \in ModIds |-> IF m = 1 THEN b ELSE EmptyMain] : b \in MainBlocks}
    /\ qs = NoQuestions
    /\ user_defines = NoDefines
    /\ xml_in = NoXml
    /\ DEFINES = NoRegistries
    /\ parsed = NotParsed
    /\ last = NoCall

NextPrune ==
    \/ Module_delete_object
    \/ Module_delete_question_by_title

SpecPrune == InitPrune /\ [][NextPrune]_vars

(***************************************************************************)
(* Survey and Module together: the module list operations and the          *)
(* deletions, on a survey whose modules have questions below Blocks and    *)
(* Loops.  The views are properties: each read computes them from modules  *)
(* and main.                                                               *)
(***************************************************************************)
ViewMains ==
    [m \in ModIds |->
        IF m = 1
        THEN Node("Block", 0, <<Node("Loop", 1, <<Node("Question", 1, <<>>)>>)>>)
        ELSE IF m = 2
        THEN Node("Block", 0, <<Node("Question", 3, <<>>)>>)
        ELSE EmptyMain]

InitViews ==
    /\ modules = <<>>
    /\ main = ViewMains
    /\ qs = NoQuestions
    /\ user_defines = NoDefines
    /\ xml_in = NoXml
    /\ DEFINES = NoRegistries
    /\ parsed = NotParsed
    /\ last = NoCall

NextViews ==
    \/ Survey_add
    \/ Survey_insert
    \/ Survey_remove
    \/ Survey_swap
    \/ Survey_move
    \/ Survey_reorder
    \/ Module_delete_object
    \/ Module_delete_question_by_title

SpecViews == InitViews /\ [][NextViews]_vars

(***************************************************************************)
(* Rows, defines and define references.  A Question's rows tuple holds     *)
(* Row objects and DefineRef placeholders; whatever else ends up in it is  *)
(* kept as it is (a tuple stays a tuple).                                  *)
(***************************************************************************)
Row(label, content) ==
    [kind |-> "Row", label |-> label, content |-> content, source |-> "", items |-> <<>>]

\* the placeholder of an <insert source=...>: it carries the source label
DefineRef(source) ==
    [kind |-> "DefineRef", label |-> "", content |-> "", source |-> source, items |-> <<>>]

\* a Python tuple sitting inside another tuple
TupleOf(items) ==
    [kind |-> "tuple", label |-> "", content |-> "", source |-> "", items |-> items]

Define(label, rows) == [label |-> label, rows |-> rows]

\* Survey.ROW_PREFIXES and Module.ROW_PREFIXES (the same table)
ROW_PREFIXES ==
    [FREQUENCY |-> "fr", FREQUENCY_SHORT |-> "frs", CONSIDERATION |-> "con",
     RECENCY |-> "rec", CATEGORIES |-> "cat", BRANDS |-> "br",
     PRIORITY_LEVEL_LISTS |-> "pll", PERCEPTIONS |-> "per", MOTIVATIONS |-> "mot",
     CATEGORY_ATTITUDES |-> "ca", LIFE_ATTITUDES |-> "la", LQ_CHEM |-> "lqc",
     LQ_EMOT |-> "lqe", LQ_RATIONAL |-> "lqr", LQ_COMPAT |-> "lqco",
     MESSAGES |-> "msg", STREAMINGBRANDS |-> "stb", SOCIALMEDIA |-> "sm",
     NEWSPAPERS |-> "np", MAGAZINES |-> "mag", AUDIOSTREAMINGBRANDS |-> "asb",
     RADIOSTATIONS |-> "rs", WEBSITES |-> "web", SHOWS |-> "sh", CHANNELS |-> "ch",
     MEDIA |-> "med", INTERESTS |-> "int", SPORTS |-> "spo"]

Editable(label) == label \in DOMAIN ROW_PREFIXES

(***************************************************************************)
(* Question, Module and Survey views used by the resolver.                 *)
(***************************************************************************)
RECURSIVE Concat(_)
Concat(seqs) == IF seqs = <<>> THEN <<>> ELSE Head(seqs) \o Concat(Tail(seqs))

\* Question.define_refs: the DefineRef instances among the rows
define_refs(question) == SelectSeq(question.rows, LAMBDA r : r.kind = "DefineRef")

\* Module.questions: the Question objects among Module.objects
Module_questions(m_main) ==
    LET qnodes == SelectSeq(objects(m_main), LAMBDA x : x.kind = "Question")
    IN  [i \in 1..Len(qnodes) |-> qnodes[i].id]

\* Survey.questions
Survey_questions(ms, mains) ==
    Concat([i \in 1..Len(ms) |-> Module_questions(mains[ms[i]])])

(***************************************************************************)
(* Loop: the questions view.                                               *)
(***************************************************************************)
\* the loop of Loop._iter_questions, consumed by tuple(...): a Question is
\* yielded, a Loop is descended into, and a Block has no _iter_questions
\* attribute
RECURSIVE iter_questions_loop(_, _, _)
iter_questions_loop(children, k, yielded) ==
    IF k > Len(children)
    THEN [raised |-> NoneVal, questions |-> yielded]
    ELSE LET child == children[k]
         IN  IF child.kind = "Question"
             THEN iter_questions_loop(children, k + 1, Append(yielded, child.id))
             ELSE IF child.kind = "Block"
             THEN [raised |-> "AttributeError", questions |-> <<>>]
             ELSE IF child.kind = "Loop"
             THEN LET r == iter_questions_loop(child.children, 1, <<>>)
                  IN  IF r.raised # NoneVal
                      THEN r
                      ELSE iter_questions_loop(children, k + 1, yielded \o r.questions)
             ELSE iter_questions_loop(children, k + 1, yielded)

\* Loop.questions
Loop_questions(loop) == iter_questions_loop(loop.children, 1, <<>>)

(***************************************************************************)
(* The descendant queries as a state machine: each is read on a module     *)
(* whose tree is any of MainBlocks, or on a Loop of that tree, and what it *)
(* returned is kept in parsed.rows.                                        *)
(***************************************************************************)
Module_get_objects ==
    /\ parsed' = [raised |-> NoneVal, rows |-> objects(main[1])]
    /\ last' = Call("Module.objects", [container |-> main[1]], main[1], NoneVal, 0)
    /\ UNCHANGED <<modules, main, qs, user_defines, xml_in, DEFINES>>

Module_get_questions ==
    /\ parsed' = [raised |-> NoneVal, rows |-> Module_questions(main[1])]
    /\ last' = Call("Module.questions", [container |-> main[1]], main[1], NoneVal, 0)
    /\ UNCHANGED <<modules, main, qs, user_defines, xml_in, DEFINES>>

Loop_get_questions ==
    \E i \in 1..Len(objects(main[1])) :
        LET loop == objects(main[1])[i]
            r == Loop_questions(loop)
        IN  /\ loop.kind = "Loop"
            /\ parsed' = [raised |-> r.raised, rows |-> r.questions]
            /\ last' = Call("Loop.questions", [container |-> loop], main[1], r.raised, 0)
            /\ UNCHANGED <<modules, main, qs, user_defines, xml_in, DEFINES>>

NextQuery ==
    \/ Module_get_objects
    \/ Module_get_questions
    \/ Loop_get_questions

SpecQuery == InitPrune /\ [][NextQuery]_vars

\* Module.define_refs
Module_define_refs(m_main, heap) ==
    LET mq == Module_questions(m_main)
    IN  Concat([i \in 1..Len(mq) |-> define_refs(heap[mq[i]])])

\* the same without the "if d.source in self.ROW_PREFIXES" filter
unfiltered_define_sources(m_main, heap) ==
    LET refs == Module_define_refs(m_main, heap)
    IN  {refs[i].source : i \in 1..Len(refs)}

\* Module.required_define_sources
required_define_sources(m_main, heap) ==
    LET refs == Module_define_refs(m_main, heap)
    IN  {refs[i].source : i \in {j \in 1..Len(refs) : Editable(refs[j].source)}}

\* Survey.required_defines_sources
required_defines_sources(ms, mains, heap) ==
    UNION {required_define_sources(mains[ms[i]], heap) : i \in 1..Len(ms)}

(***************************************************************************)
(* Survey.create_define and Survey.resolve_inserts.                        *)
(***************************************************************************)
\* f"{prefix}{idx}"
RowLabel(prefix, idx) == prefix \o ToString(idx)

\* a create_define that takes any editable label, required or not
create_define_any_label(ms, mains, heap, defines, def_label, items) ==
    IF ~Editable(def_label)
    THEN [raised |-> "ValueError", user_defines |-> defines]
    ELSE [raised |-> NoneVal,
          user_defines |->
              [l \in (DOMAIN defines) \cup {def_label} |->
                  IF l = def_label
                  THEN Define(def_label,
                              [idx \in 1..Len(items) |->
                                  Row(RowLabel(ROW_PREFIXES[def_label], idx), items[idx])])
                  ELSE defines[l]]]

\* Survey.create_define
create_define(ms, mains, heap, defines, def_label, items) ==
    IF def_label \notin required_defines_sources(ms, mains, heap)
    THEN [raised |-> "ValueError", user_defines |-> defines]
    ELSE IF ~Editable(def_label)
    THEN [raised |-> "ValueError", user_defines |-> defines]
    ELSE LET prefix == ROW_PREFIXES[def_label]
             def_rows == [idx \in 1..Len(items) |-> Row(RowLabel(prefix, idx), items[idx])]
             final_define == Define(def_label, def_rows)
         IN  [raised |-> NoneVal,
              user_defines |->
                  [l \in (DOMAIN defines) \cup {def_label} |->
                      IF l = def_label THEN final_define ELSE defines[l]]]

\* for ref in question.define_refs: collects define_insert.rows, one tuple
\* per editable reference
RECURSIVE collect_inserts(_, _, _, _)
collect_inserts(refs, k, defines, insert_rows) ==
    IF k > Len(refs)
    THEN [raised |-> NoneVal, insert_rows |-> insert_rows]
    ELSE LET label == refs[k].source
         IN  IF Editable(label)
             THEN IF label \notin DOMAIN defines
                  THEN [raised |-> "ValueError", insert_rows |-> insert_rows]
                  ELSE collect_inserts(refs, k + 1, defines,
                                       Append(insert_rows, TupleOf(defines[label].rows)))
             ELSE collect_inserts(refs, k + 1, defines, insert_rows)

\* a resolver that adds the inserted rows after the rows already there
resolve_question_appending(question, insert_rows) ==
    IF insert_rows # <<>>
    THEN [question EXCEPT
            !.historic_define_refs =
                IF Falsy(question.historic_define_refs)
                THEN Some(define_refs(question))
                ELSE question.historic_define_refs,
            !.rows = question.rows \o insert_rows]
    ELSE question

\* the body of the loop over questions, for one question
resolve_question(question, insert_rows) ==
    IF insert_rows # <<>>
    THEN [question EXCEPT
            !.historic_define_refs =
                IF Falsy(question.historic_define_refs)
                THEN Some(define_refs(question))
                ELSE question.historic_define_refs,
            !.rows = insert_rows]
    ELSE question

\* for question in self.questions: the questions tuple is taken once, the
\* Question objects are changed one after the other, and a raise stops the
\* loop where it is
RECURSIVE resolve_loop(_, _, _, _)
resolve_loop(questions, k, heap, defines) ==
    IF k > Len(questions)
    THEN [raised |-> NoneVal, qs |-> heap]
    ELSE LET q == questions[k]
             c == collect_inserts(define_refs(heap[q]), 1, defines, <<>>)
         IN  IF c.raised # NoneVal
             THEN [raised |-> c.raised, qs |-> heap]
             ELSE resolve_loop(questions, k + 1,
                               [heap EXCEPT ![q] = resolve_question(heap[q], c.insert_rows)],
                               defines)

resolve_inserts(ms, mains, heap, defines) ==
    resolve_loop(Survey_questions(ms, mains), 1, heap, defines)

(***************************************************************************)
(* The resolver as a state machine.  The survey holds module 1 (Question   *)
(* 1 in its main block) and module 2 (Question 2 inside a Loop); module 3  *)
(* with Question 3 is loaded but not added.  Question 1's rows are any     *)
(* sequence of at most MaxRows entries, Question 2's one of a few.         *)
(***************************************************************************)
MaxRows == 2
MaxItems == 1

Sources == {"BRANDS", "CATEGORIES", "AGE_LIST"}      \* AGE_LIST is not editable
RowEntries == {Row("r1", "Other")} \cup {DefineRef(l) : l \in Sources}
RowSeqs(n) == UNION {[1..k -> RowEntries] : k \in 0..n}
ItemSeqs(n) == UNION {[1..k -> {"Ikea"}] : k \in 0..n}

SecondRows ==
    {<<>>, <<Row("r1", "Other")>>, <<DefineRef("BRANDS")>>,
     <<DefineRef("CATEGORIES"), Row("r1", "Other")>>}

ResolveMains ==
    [m \in ModIds |->
        IF m = 1 THEN Node("Block", 0, <<Node("Question", 1, <<>>)>>)
        ELSE IF m = 2
        THEN Node("Block", 0, <<Node("Loop", 1, <<Node("Question", 2, <<>>)>>)>>)
        ELSE IF m = 3 THEN Node("Block", 0, <<Node("Question", 3, <<>>)>>)
        ELSE EmptyMain]

Survey_create_define ==
    \E def_label \in Sources, items \in ItemSeqs(MaxItems) :
        LET r == create_define(modules, main, qs, user_defines, def_label, items)
        IN  /\ user_defines' = r.user_defines
            /\ last' = Call("create_define", [def_label |-> def_label, items |-> items],
                            user_defines, r.raised, 0)
            /\ UNCHANGED <<modules, main, qs, xml_in, DEFINES, parsed>>

Survey_resolve_inserts ==
    LET r == resolve_inserts(modules, main, qs, user_defines)
    IN  /\ qs' = r.qs
        /\ last' = Call("resolve_inserts",
                        [previous |-> [op |-> last.op, raised |-> last.raised]],
                        qs, r.raised, 0)
        /\ UNCHANGED <<modules, main, user_defines, xml_in, DEFINES, parsed>>

InitResolve ==
    /\ modules = <<1, 2>>
    /\ main = ResolveMains
    /\ qs \in {[q \in QIds |->
                   [title |-> title_of[q],
                    rows |-> IF q = 1 THEN r1 ELSE IF q = 2 THEN r2
                             ELSE <<DefineRef("CATEGORIES")>>,
                    historic_define_refs |-> Absent]] :
                r1 \in RowSeqs(MaxRows), r2 \in SecondRows}
    /\ user_defines = NoDefines
    /\ xml_in = NoXml
    /\ DEFINES = NoRegistries
    /\ parsed = NotParsed
    /\ last = NoCall

NextResolve ==
    \/ Survey_create_define
    \/ Survey_resolve_inserts

SpecResolve == InitResolve /\ [][NextResolve]_vars

(***************************************************************************)
(* The decoder of a question's row collection (parsing/xml_parser.py and   *)
(* parsing/xml.py).  An XML element is a record: tag, the label and source *)
(* attributes ("None" when absent), its text, and whether it carries a     *)
(* groups attribute.                                                       *)
(***************************************************************************)
Elem(tag, label, text, source, groups) ==
    [tag |-> tag, label |-> label, text |-> text, source |-> source, groups |-> groups]

\* parse_row: set(_attr(row_el, "groups").split(",")) is None.split when the
\* element has no groups attribute
parse_row(row_el) ==
    IF ~row_el.groups
    THEN [raised |-> "AttributeError", row |-> Row("", "")]
    ELSE [raised |-> NoneVal, row |-> Row(row_el.label, row_el.text)]

\* tuple(parse_row(child) for child in el)
RECURSIVE parse_each_row(_, _, _)
parse_each_row(children, k, rows) ==
    IF k > Len(children)
    THEN [raised |-> NoneVal, rows |-> rows]
    ELSE LET r == parse_row(children[k])
         IN  IF r.raised # NoneVal
             THEN [raised |-> r.raised, rows |-> rows]
             ELSE parse_each_row(children, k + 1, Append(rows, r.row))

\* the loop "for child in parent" of parse_rows; raising a str is a TypeError.
\* skip_unlabelled is the "if not label: continue" that only xml.py has.
RECURSIVE parse_rows_loop(_, _, _, _, _)
parse_rows_loop(children, k, registry, rows, skip_unlabelled) ==
    IF k > Len(children)
    THEN [raised |-> NoneVal, rows |-> rows]
    ELSE LET child == children[k]
         IN  IF child.tag = "row"
             THEN LET r == parse_row(child)
                  IN  IF r.raised # NoneVal
                      THEN [raised |-> r.raised, rows |-> <<>>]
                      ELSE parse_rows_loop(children, k + 1, registry,
                                           Append(rows, r.row), skip_unlabelled)
             ELSE IF child.tag = "insert"
             THEN LET label == child.source
                  IN  IF skip_unlabelled /\ label = NoneVal
                      THEN parse_rows_loop(children, k + 1, registry, rows,
                                           skip_unlabelled)
                      ELSE IF label \in DOMAIN registry
                      THEN parse_rows_loop(children, k + 1, registry,
                                           rows \o registry[label].rows,
                                           skip_unlabelled)
                      ELSE [raised |-> "TypeError", rows |-> <<>>]
             ELSE parse_rows_loop(children, k + 1, registry, rows, skip_unlabelled)

\* xml_parser.parse_rows
parse_rows(parent, registry) ==
    parse_rows_loop(parent.children, 1, registry, <<>>, FALSE)

\* xml.parse_rows
xml_parse_rows(parent, registry) ==
    parse_rows_loop(parent.children, 1, registry, <<>>, TRUE)

\* find_defines: every <define> is registered by label, a later one
\* replacing an earlier one; the registry is replaced only when no row
\* failed to parse
RECURSIVE find_defines_loop(_, _, _)
find_defines_loop(defines, k, defs) ==
    IF k > Len(defines)
    THEN [raised |-> NoneVal, defs |-> defs]
    ELSE LET el == defines[k]
             r == parse_each_row(el.children, 1, <<>>)
         IN  IF r.raised # NoneVal
             THEN [raised |-> r.raised, defs |-> defs]
             ELSE find_defines_loop(defines, k + 1,
                      [l \in (DOMAIN defs) \cup {el.label} |->
                          IF l = el.label THEN Define(el.label, r.rows) ELSE defs[l]])

find_defines(root_el, registry) ==
    LET r == find_defines_loop(root_el.defines, 1, NoDefines)
    IN  IF r.raised # NoneVal
        THEN [raised |-> r.raised, registry |-> registry]
        ELSE [raised |-> NoneVal, registry |-> r.defs]

(***************************************************************************)
(* The decoder as a state machine: a document with its <define> elements   *)
(* and one question element is given; find_defines and parse_rows of       *)
(* either parsing module are called in any order.                          *)
(***************************************************************************)
MaxChildren == 2
MaxDefines == 1
MaxDefineRows == 1

RowElems == {Elem("row", "r1", "Other", NoneVal, g) : g \in BOOLEAN}
InsertElems == {Elem("insert", NoneVal, "", l, FALSE) : l \in {"BRANDS", "CATEGORIES", NoneVal}}
ChildElems == RowElems \cup InsertElems \cup {Elem("title", NoneVal, "Which?", NoneVal, FALSE)}
DefineElems ==
    {[tag |-> "define", label |-> l, children |-> c] :
        l \in {"BRANDS", "CATEGORIES"},
        c \in UNION {[1..k -> RowElems] : k \in 0..MaxDefineRows}}
Documents ==
    {[defines |-> d, children |-> c] :
        d \in UNION {[1..k -> DefineElems] : k \in 0..MaxDefines},
        c \in UNION {[1..k -> ChildElems] : k \in 0..MaxChildren}}

Parser_find_defines ==
    \E p \in Parsers :
        LET r == find_defines(xml_in, DEFINES[p])
        IN  /\ DEFINES' = [DEFINES EXCEPT ![p] = r.registry]
            /\ last' = Call("find_defines", [parser |-> p], DEFINES[p], r.raised, 0)
            /\ UNCHANGED <<modules, main, qs, user_defines, xml_in, parsed>>

Parser_parse_rows ==
    LET r == parse_rows(xml_in, DEFINES["xml_parser"])
    IN  /\ parsed' = r
        /\ last' = Call("parse_rows", [parser |-> "xml_parser"],
                        DEFINES["xml_parser"], r.raised, 0)
        /\ UNCHANGED <<modules, main, qs, user_defines, xml_in, DEFINES>>

Parser_xml_parse_rows ==
    LET r == xml_parse_rows(xml_in, DEFINES["xml"])
    IN  /\ parsed' = r
        /\ last' = Call("parse_rows", [parser |-> "xml"], DEFINES["xml"], r.raised, 0)
        /\ UNCHANGED <<modules, main, qs, user_defines, xml_in, DEFINES>>

InitParse ==
    /\ modules = <<>>
    /\ main = [m \in ModIds |-> EmptyMain]
    /\ qs = NoQuestions
    /\ user_defines = NoDefines
    /\ xml_in \in Documents
    /\ DEFINES = NoRegistries
    /\ parsed = NotParsed
    /\ last = NoCall

NextParse ==
    \/ Parser_find_defines
    \/ Parser_parse_rows
    \/ Parser_xml_parse_rows

SpecParse == InitParse /\ [][NextParse]_vars

(***************************************************************************)
(* The tree decoder of parsing/xml_parser.py: element_from_xml_element,    *)
(* parse_block, parse_loop, parse_survey.  An element of the document is a *)
(* record with its tag, label, text, source and groups attributes and its  *)
(* children.  _PARSE_STACK is passed down as a parameter: every push is    *)
(* undone by the "finally" of the same call.                               *)
(***************************************************************************)
XmlEl(tag, label, children) ==
    [tag |-> tag, label |-> label, text |-> "", source |-> NoneVal,
     groups |-> FALSE, children |-> children]

\* the keys of _PARSERS
PARSERS ==
    {"row", "col", "choice", "radio", "checkbox", "select", "number", "float",
     "text", "textarea", "autofill", "block", "note", "suspend", "exec", "res",
     "style", "html", "loop", "quota", "goto", "define", "term", "logic",
     "samplesources", "samplesource", "var", "exit", "condition"}

\* a decoded object: its class, label, children, looprows and rows
Obj(kind, label, children, looprows, rows) ==
    [kind |-> kind, label |-> label, children |-> children,
     looprows |-> looprows, rows |-> rows]

NoObj == Obj("none", "", <<>>, <<>>, <<>>)

\* f'<{tag} label="{label}">'
Entry(xml_elm) == [tag |-> xml_elm.tag, label |-> xml_elm.label]

\* a call that returned obj; inserts are the sources of the <insert>
\* children that were decoded on the way
Returned(obj, inserts) ==
    [raised |-> NoneVal, obj |-> obj, paths |-> <<>>, named |-> <<>>,
     inserts |-> inserts]

\* a call that raised: paths are the _current_path() texts of the
\* "ERROR while parsing" prefixes, outermost first; named is what the
\* innermost message says about the container
Raised(type, paths, named, inserts) ==
    [raised |-> type, obj |-> NoObj, paths |-> paths, named |-> named,
     inserts |-> inserts]

\* the sources of the <insert> children parse_rows reaches, the one it
\* raises at included
RECURSIVE inserts_reached(_, _, _, _)
inserts_reached(children, k, registry, seen) ==
    IF k > Len(children) THEN seen
    ELSE IF children[k].tag = "row" /\ ~children[k].groups THEN seen
    ELSE IF children[k].tag = "insert"
    THEN IF children[k].source \in DOMAIN registry
         THEN inserts_reached(children, k + 1, registry,
                              Append(seen, children[k].source))
         ELSE Append(seen, children[k].source)
    ELSE inserts_reached(children, k + 1, registry, seen)

\* parse_radio: the arguments of RadioQuestion(...) are evaluated, rows =
\* parse_rows(radio_el) among them; the constructor is called without the
\* keyword-only field "suspend", which has no default, and raises TypeError
parse_radio(radio_el, registry) ==
    LET r == parse_rows(radio_el, registry)
        seen == inserts_reached(radio_el.children, 1, registry, <<>>)
    IN  IF r.raised # NoneVal
        THEN Raised(r.raised, <<>>, <<>>, seen)
        ELSE Raised("TypeError", <<>>, <<>>, seen)

\* parse_define: Define(label, rows = parse_rows(define_el))
parse_define(define_el, registry) ==
    LET r == parse_rows(define_el, registry)
        seen == inserts_reached(define_el.children, 1, registry, <<>>)
    IN  IF r.raised # NoneVal
        THEN Raised(r.raised, <<>>, <<>>, seen)
        ELSE Returned(Obj(define_el.tag, define_el.label, <<>>, <<>>, r.rows), seen)

parse_looprow(looprow_el) == Obj("looprow", looprow_el.label, <<>>, <<>>, <<>>)

RECURSIVE element_from_xml_element(_, _, _)
RECURSIVE block_loop(_, _, _, _, _, _)
RECURSIVE loop_loop(_, _, _, _, _, _, _)

\* a block loop that leaves an unknown child out and goes on
block_loop_skipping(block_el, k, children, inserts, stack, registry) ==
    IF k > Len(block_el.children)
    THEN Returned(Obj("block", block_el.label, children, <<>>, <<>>), inserts)
    ELSE LET child == block_el.children[k]
         IN  IF child.tag \in PARSERS
             THEN LET r == element_from_xml_element(child, stack, registry)
                  IN  IF r.raised # NoneVal
                      THEN Raised(r.raised, r.paths, r.named, inserts \o r.inserts)
                      ELSE block_loop(block_el, k + 1, Append(children, r.obj),
                                      inserts \o r.inserts, stack, registry)
             ELSE block_loop(block_el, k + 1, children, inserts, stack, registry)

\* parse_block: for child in block_el
block_loop(block_el, k, children, inserts, stack, registry) ==
    IF k > Len(block_el.children)
    THEN Returned(Obj("block", block_el.label, children, <<>>, <<>>), inserts)
    ELSE LET child == block_el.children[k]
         IN  IF child.tag \in PARSERS
             THEN LET r == element_from_xml_element(child, stack, registry)
                  IN  IF r.raised # NoneVal
                      THEN Raised(r.raised, r.paths, r.named, inserts \o r.inserts)
                      ELSE block_loop(block_el, k + 1, Append(children, r.obj),
                                      inserts \o r.inserts, stack, registry)
             ELSE Raised("ValueError", <<>>, <<Entry(block_el)>>, inserts)

parse_block(block_el, stack, registry) ==
    block_loop(block_el, 1, <<>>, <<>>, stack, registry)

\* parse_loop: for child in loop_el; its message gives loop_el.tag, not the label
loop_loop(loop_el, k, children, looprows, inserts, stack, registry) ==
    IF k > Len(loop_el.children)
    THEN Returned(Obj("loop", loop_el.label, children, looprows, <<>>), inserts)
    ELSE LET child == loop_el.children[k]
         IN  IF child.tag \in PARSERS
             THEN LET r == element_from_xml_element(child, stack, registry)
                  IN  IF r.raised # NoneVal
                      THEN Raised(r.raised, r.paths, r.named, inserts \o r.inserts)
                      ELSE loop_loop(loop_el, k + 1, Append(children, r.obj), looprows,
                                     inserts \o r.inserts, stack, registry)
             ELSE IF child.tag = "looprow"
             THEN loop_loop(loop_el, k + 1, children,
                            Append(looprows, parse_looprow(child)),
                            inserts, stack, registry)
             ELSE Raised("ValueError", <<>>,
                         <<[tag |-> loop_el.tag, label |-> NoneVal]>>, inserts)

parse_loop(loop_el, stack, registry) ==
    loop_loop(loop_el, 1, <<>>, <<>>, <<>>, stack, registry)

\* _PARSERS[tag](xml_elm)
dispatch(xml_elm, stack, registry) ==
    IF xml_elm.tag = "block" THEN parse_block(xml_elm, stack, registry)
    ELSE IF xml_elm.tag = "loop" THEN parse_loop(xml_elm, stack, registry)
    ELSE IF xml_elm.tag = "radio" THEN parse_radio(xml_elm, registry)
    ELSE IF xml_elm.tag = "define" THEN parse_define(xml_elm, registry)
    ELSE Returned(Obj(xml_elm.tag, xml_elm.label, <<>>, <<>>, <<>>), <<>>)

\* push the entry, call the parser, wrap whatever it raised into a
\* ValueError that starts with the current path, pop
element_from_xml_element(xml_elm, stack, registry) ==
    LET pushed == Append(stack, Entry(xml_elm))
    IN  IF xml_elm.tag \notin PARSERS
        THEN Raised("ValueError", <<pushed>>, <<>>, <<>>)
        ELSE LET r == dispatch(xml_elm, pushed, registry)
             IN  IF r.raised # NoneVal
                 THEN Raised("ValueError", <<pushed>> \o r.paths, r.named, r.inserts)
                 ELSE r

\* root_el.iter(): the element and its descendants in document order
RECURSIVE iter(_)
iter(el) == <<el>> \o Concat([i \in 1..Len(el.children) |-> iter(el.children[i])])

\* find_defines over a document tree
find_defines_in(root_el, registry) ==
    find_defines([defines |-> SelectSeq(iter(root_el), LAMBDA e : e.tag = "define")],
                 registry)

\* parse_survey: for child in root
RECURSIVE survey_loop(_, _, _, _, _)
survey_loop(root, k, elements, inserts, registry) ==
    IF k > Len(root.children)
    THEN Returned(Obj("survey", root.label, elements, <<>>, <<>>), inserts)
    ELSE LET child == root.children[k]
         IN  IF child.tag \in PARSERS
             THEN LET r == element_from_xml_element(child, <<>>, registry)
                  IN  IF r.raised # NoneVal
                      THEN Raised(r.raised, r.paths, r.named, inserts \o r.inserts)
                      ELSE survey_loop(root, k + 1, Append(elements, r.obj),
                                       inserts \o r.inserts, registry)
             ELSE Raised("ValueError", <<>>,
                         <<[tag |-> "survey", label |-> NoneVal]>>, inserts)

parse_survey(root, registry) ==
    LET f == find_defines_in(root, registry)
    IN  IF f.raised # NoneVal
        THEN [result |-> Raised(f.raised, <<>>, <<>>, <<>>), registry |-> f.registry]
        ELSE [result |-> survey_loop(root, 1, <<>>, <<>>, f.registry),
              registry |-> f.registry]

\* root.find("block"): the first <block> child of the root
find_block(root) ==
    LET blocks == SelectSeq(root.children, LAMBDA e : e.tag = "block")
    IN  Head(blocks)

\* load_module_from_project: main = parse_block(root.find("block"))
load_module_from_project(root, registry) ==
    parse_block(find_block(root), <<>>, registry)

(***************************************************************************)
(* The tree decoder as a state machine: a document is given, and its       *)
(* decode entry points are called.  The registry is empty or still holds   *)
(* the defines of a document decoded earlier.                              *)
(***************************************************************************)
MaxMainChildren == 2

XmlRow(label, text) ==
    [tag |-> "row", label |-> label, text |-> text, source |-> NoneVal,
     groups |-> TRUE, children |-> <<>>]
XmlInsert(source) ==
    [tag |-> "insert", label |-> NoneVal, text |-> "", source |-> source,
     groups |-> FALSE, children |-> <<>>]

XmlDefine == XmlEl("define", "BRANDS", <<XmlRow("br1", "Ikea")>>)
XmlUnknown == XmlEl("foo", "X", <<>>)
XmlAtoms ==
    {XmlEl("radio", "Q1", <<XmlRow("r1", "Other")>>),
     XmlEl("radio", "Q2", <<XmlInsert("BRANDS")>>),
     XmlDefine, XmlUnknown, XmlEl("looprow", "lr1", <<>>)}
XmlInner ==
    {XmlEl(t[1], t[2], c) :
        t \in {<<"block", "B2">>, <<"loop", "L1">>},
        c \in {<<>>} \cup {<<a>> : a \in XmlAtoms}}
XmlMainBlocks ==
    {XmlEl("block", "B1", c) :
        c \in UNION {[1..k -> XmlAtoms \cup XmlInner] : k \in 0..MaxMainChildren}}
DecodeDocuments ==
    {XmlEl("survey", NoneVal, pre \o <<m>>) :
        pre \in {<<>>, <<XmlDefine>>, <<XmlUnknown>>}, m \in XmlMainBlocks}

StaleRegistry == [l \in {"BRANDS"} |-> Define("BRANDS", <<Row("br1", "Old")>>)]

Decoder_parse_survey ==
    LET r == parse_survey(xml_in, DEFINES["xml_parser"])
    IN  /\ DEFINES' = [DEFINES EXCEPT !["xml_parser"] = r.registry]
        /\ parsed' = r.result
        /\ last' = Call("parse_survey", NoArgs, DEFINES["xml_parser"], r.result.raised, 0)
        /\ UNCHANGED <<modules, main, qs, user_defines, xml_in>>

Decoder_load_module_from_project ==
    LET r == load_module_from_project(xml_in, DEFINES["xml_parser"])
    IN  /\ parsed' = r
        /\ last' = Call("load_module_from_project", NoArgs, DEFINES["xml_parser"],
                        r.raised, 0)
        /\ UNCHANGED <<modules, main, qs, user_defines, xml_in, DEFINES>>

Decoder_element_from_xml_element ==
    LET r == element_from_xml_element(find_block(xml_in), <<>>, DEFINES["xml_parser"])
    IN  /\ parsed' = r
        /\ last' = Call("element_from_xml_element", NoArgs, DEFINES["xml_parser"],
                        r.raised, 0)
        /\ UNCHANGED <<modules, main, qs, user_defines, xml_in, DEFINES>>

InitDecode ==
    /\ modules = <<>>
    /\ main = [m \in ModIds |-> EmptyMain]
    /\ qs = NoQuestions
    /\ user_defines = NoDefines
    /\ xml_in \in DecodeDocuments
    /\ DEFINES \in {[NoRegistries EXCEPT !["xml_parser"] = g] : g \in {NoDefines, StaleRegistry}}
    /\ parsed = Returned(NoObj, <<>>)
    /\ last = NoCall

NextDecode ==
    \/ Decoder_parse_survey
    \/ Decoder_load_module_from_project
    \/ Decoder_element_from_xml_element

SpecDecode == InitDecode /\ [][NextDecode]_vars

(***************************************************************************)
(* _PARSE_STACK step by step.  The decoder state is the global stack, the  *)
(* element_from_xml_element calls in progress (frames: the element of each *)
(* call and the child its parser is at), the exception in flight (exc),    *)
(* the stack as it was when the outermost call was made (base) and the     *)
(* deepest nesting that call reached.                                      *)
(***************************************************************************)
MaxStackChildren == 2

Idle(stack) ==
    [stack |-> stack, frames |-> <<>>, exc |-> NoneVal, base |-> stack, deepest |-> 0]

IsBranch(xml_elm) == xml_elm.tag \in {"block", "loop"}

\* _PARSE_STACK.append(entry) on entry to element_from_xml_element(xml_elm)
push_entry(st, xml_elm) ==
    [st EXCEPT !.stack = Append(@, Entry(xml_elm)),
               !.frames = Append(@, [el |-> xml_elm, k |-> 1]),
               !.deepest = Max(@, Len(st.frames) + 1)]

\* the parser of the innermost call has returned
parser_returned(st, registry) ==
    LET f == st.frames[Len(st.frames)]
    IN  /\ f.el.tag \in PARSERS
        /\ IF IsBranch(f.el)
           THEN f.k > Len(f.el.children)
           ELSE dispatch(f.el, st.stack, registry).raised = NoneVal

\* one step of the try block of the innermost call: the tag has no parser,
\* or the parser of a block or loop takes its next child, or another parser
\* raises
try_step(st, registry) ==
    LET f == st.frames[Len(st.frames)]
        child == f.el.children[f.k]
    IN  IF f.el.tag \notin PARSERS
        THEN [st EXCEPT !.exc = "ValueError"]
        ELSE IF ~IsBranch(f.el)
        THEN [st EXCEPT !.exc = dispatch(f.el, st.stack, registry).raised]
        ELSE IF child.tag \in PARSERS
        THEN push_entry(st, child)
        ELSE IF f.el.tag = "loop" /\ child.tag = "looprow"
        THEN [st EXCEPT !.frames[Len(st.frames)].k = @ + 1]
        ELSE [st EXCEPT !.exc = "ValueError"]

\* the call ends with the pop after the return statement, so that a call
\* that raises leaves its entry on the stack
pop_after_return(st) ==
    LET n == Len(st.frames)
        left == SubSeq(st.frames, 1, n - 1)
    IN  [st EXCEPT
           !.stack = IF st.exc = NoneVal THEN SubSeq(@, 1, Len(@) - 1) ELSE @,
           !.frames = IF st.exc = NoneVal /\ n > 1
                      THEN [left EXCEPT ![n - 1].k = @ + 1]
                      ELSE left,
           !.exc = IF st.exc = NoneVal THEN NoneVal ELSE "ValueError"]

\* the end of the innermost call: an exception is wrapped into a ValueError
\* and goes on to the caller, whose parser does not catch it; a result goes
\* to the caller's loop; finally: _PARSE_STACK.pop()
except_finally(st) ==
    LET n == Len(st.frames)
        left == SubSeq(st.frames, 1, n - 1)
    IN  [st EXCEPT
           !.stack = SubSeq(@, 1, Len(@) - 1),
           !.frames = IF st.exc = NoneVal /\ n > 1
                      THEN [left EXCEPT ![n - 1].k = @ + 1]
                      ELSE left,
           !.exc = IF st.exc = NoneVal THEN NoneVal ELSE "ValueError"]

StackDocuments ==
    {XmlEl("survey", NoneVal, <<XmlUnknown, XmlEl("block", "B1", c)>>) :
        c \in UNION {[1..k -> XmlAtoms \cup XmlInner] : k \in 0..MaxStackChildren}}

\* a decode call from outside: element_from_xml_element(child) for a child
\* of the root, as parse_survey makes it
Stack_call ==
    \E i \in 1..Len(xml_in.children) :
        /\ parsed.frames = <<>>
        /\ parsed' = push_entry(Idle(parsed.stack), xml_in.children[i])
        /\ last' = Call("element_from_xml_element", [child |-> i], parsed.stack,
                        NoneVal, 0)
        /\ UNCHANGED <<modules, main, qs, user_defines, xml_in, DEFINES>>

Stack_try ==
    /\ parsed.frames # <<>>
    /\ parsed.exc = NoneVal
    /\ ~parser_returned(parsed, DEFINES["xml_parser"])
    /\ parsed' = try_step(parsed, DEFINES["xml_parser"])
    /\ last' = Call("try", NoArgs, parsed.stack, parsed'.exc, 0)
    /\ UNCHANGED <<modules, main, qs, user_defines, xml_in, DEFINES>>

Stack_finally ==
    /\ parsed.frames # <<>>
    /\ parsed.exc # NoneVal \/ parser_returned(parsed, DEFINES["xml_parser"])
    /\ parsed' = except_finally(parsed)
    /\ last' = Call("finally", NoArgs, parsed.stack, parsed'.exc, 0)
    /\ UNCHANGED <<modules, main, qs, user_defines, xml_in, DEFINES>>

InitStack ==
    /\ modules = <<>>
    /\ main = [m \in ModIds |-> EmptyMain]
    /\ qs = NoQuestions
    /\ user_defines = NoDefines
    /\ xml_in \in StackDocuments
    /\ DEFINES = NoRegistries
    /\ parsed = Idle(<<>>)
    /\ last = NoCall

NextStack ==
    \/ Stack_call
    \/ Stack_try
    \/ Stack_finally

SpecStack == InitStack /\ [][NextStack]_vars

(***************************************************************************)
(* Attribute helpers of utils/xml_helpers.py.  An attribute value is a     *)
(* sequence of characters, Absent when the element has no such attribute;  *)
(* a bool | None is "True", "False" or "None".                             *)
(***************************************************************************)
Chars == {"1", "0", " ", "T"}
Tristate == {"True", "False", NoneVal}

\* str.lower, character by character
lower(s) == [i \in 1..Len(s) |-> IF s[i] = "T" THEN "t" ELSE s[i]]

\* str.strip: leading and trailing whitespace removed
RECURSIVE lstrip(_)
lstrip(s) == IF s # <<>> /\ Head(s) = " " THEN lstrip(Tail(s)) ELSE s
RECURSIVE rstrip(_)
rstrip(s) ==
    IF s # <<>> /\ s[Len(s)] = " " THEN rstrip(SubSeq(s, 1, Len(s) - 1)) ELSE s
strip(s) == rstrip(lstrip(s))

\* _bit: None when absent, else str(v).strip().lower() in {"1"}
_bit(attr) ==
    IF ~attr.some THEN NoneVal
    ELSE IF lower(strip(attr.val)) = <<"1">> THEN "True" ELSE "False"

\* a bool_bit that writes "true" / "false"
bool_bit_words(b) ==
    IF b = NoneVal THEN Absent
    ELSE IF b = "True" THEN Some(<<"T">>) ELSE Some(<<"0">>)

\* bool_bit: None -> None, True -> "1", False -> "0"
bool_bit(b) ==
    IF b = NoneVal THEN Absent
    ELSE IF b = "True" THEN Some(<<"1">>) ELSE Some(<<"0">>)

\* Element.to_xml_element: if out not in (None, ""): attrs[xml_name] = out
emitted(out) == IF ~out.some \/ out.val = <<>> THEN Absent ELSE out

(***************************************************************************)
(* The helpers as a state machine: an attribute is read from a document or *)
(* written by the encoder, and decoded.                                    *)
(***************************************************************************)
MaxAttrLen == 3

AttrValues == {Absent} \cup {Some(v) : v \in UNION {[1..k -> Chars] : k \in 0..MaxAttrLen}}

Encoder_bool_bit ==
    \E b \in Tristate :
        /\ xml_in' = emitted(bool_bit(b))
        /\ last' = Call("bool_bit", [b |-> b], xml_in, NoneVal, 0)
        /\ UNCHANGED <<modules, main, qs, user_defines, DEFINES, parsed>>

Helpers_bit ==
    /\ parsed' = [value |-> _bit(xml_in)]
    /\ last' = Call("_bit",
                    [encoded |-> last.op = "bool_bit",
                     b |-> IF last.op = "bool_bit" THEN last.args.b ELSE NoneVal],
                    xml_in, NoneVal, 0)
    /\ UNCHANGED <<modules, main, qs, user_defines, xml_in, DEFINES>>

InitAttr ==
    /\ modules = <<>>
    /\ main = [m \in ModIds |-> EmptyMain]
    /\ qs = NoQuestions
    /\ user_defines = NoDefines
    /\ xml_in \in AttrValues
    /\ DEFINES = NoRegistries
    /\ parsed = [value |-> NoneVal]
    /\ last = NoCall

NextAttr ==
    \/ Encoder_bool_bit
    \/ Helpers_bit

SpecAttr == InitAttr /\ [][NextAttr]_vars

(***************************************************************************)
(* Comma-separated enum attributes: _parse_enum_set (utils/xml_helpers.py) *)
(* and _csv_to_enum_set (models/questions.py), against the Where enum.  A  *)
(* comma-separated text is the sequence of its parts between the commas;   *)
(* a part is a word, possibly with whitespace around it.                   *)
(***************************************************************************)
\* enums.Where: member name -> value
Where ==
    [EXECUTE |-> "execute", NOTDP |-> "notdp", NONE |-> "none",
     SUMMARY |-> "summary", SURVEY |-> "survey", REPORT |-> "report",
     DATA |-> "data"]

Part(word, padded) == [word |-> word, padded |-> padded]

\* p.strip()
strip_part(p) == p.word

\* [p.strip() for p in raw_text.split(",") if p.strip()]
parts_of(text) ==
    LET kept == SelectSeq(text, LAMBDA p : strip_part(p) # "")
    IN  [i \in 1..Len(kept) |-> strip_part(kept[i])]

Member(name) == [kind |-> "member", v |-> name]
RawToken(p) == [kind |-> "raw", v |-> p]

\* enum_class(p): the member whose value is p
by_value(enum_class, p) == {n \in DOMAIN enum_class : enum_class[n] = p}

\* for p in parts: vals.add(enum_class(p)), ValueError when p is no value
RECURSIVE enum_loop(_, _, _, _)
enum_loop(parts, k, enum_class, vals) ==
    IF k > Len(parts) THEN [raised |-> NoneVal, vals |-> vals]
    ELSE IF by_value(enum_class, parts[k]) = {}
    THEN [raised |-> "ValueError", vals |-> {}]
    ELSE enum_loop(parts, k + 1, enum_class,
                   vals \cup {Member(n) : n \in by_value(enum_class, parts[k])})

_parse_enum_set(attr, enum_class) ==
    IF ~attr.some \/ attr.val = <<>>
    THEN [raised |-> NoneVal, vals |-> {}]
    ELSE enum_loop(parts_of(attr.val), 1, enum_class, {})

\* _csv_to_enum_set: the first member whose name or value is p is added; a
\* part that matches no member falls through to "pass"
_csv_to_enum_set(attr, enum_cls) ==
    IF ~attr.some \/ attr.val = <<>>
    THEN [raised |-> NoneVal, vals |-> {}]
    ELSE LET parts == parts_of(attr.val)
             match(p) == {n \in DOMAIN enum_cls : p = n \/ p = enum_cls[n]}
         IN  [raised |-> NoneVal,
              vals |-> UNION {{Member(n) : n \in match(parts[i])} : i \in 1..Len(parts)}]

(***************************************************************************)
(* The enum conversions as a state machine.                                *)
(***************************************************************************)
MaxParts == 2

CsvParts ==
    {Part("execute", FALSE), Part("execute", TRUE), Part("EXECUTE", FALSE),
     Part("Survey", FALSE), Part("bogus", FALSE), Part("", TRUE)}
CsvAttrs == {Absent} \cup {Some(t) : t \in UNION {[1..k -> CsvParts] : k \in 0..MaxParts}}

Helpers_parse_enum_set ==
    /\ parsed' = _parse_enum_set(xml_in, Where)
    /\ last' = Call("_parse_enum_set", NoArgs, xml_in, parsed'.raised, 0)
    /\ UNCHANGED <<modules, main, qs, user_defines, xml_in, DEFINES>>

Questions_csv_to_enum_set ==
    /\ parsed' = _csv_to_enum_set(xml_in, Where)
    /\ last' = Call("_csv_to_enum_set", NoArgs, xml_in, parsed'.raised, 0)
    /\ UNCHANGED <<modules, main, qs, user_defines, xml_in, DEFINES>>

InitEnum ==
    /\ modules = <<>>
    /\ main = [m \in ModIds |-> EmptyMain]
    /\ qs = NoQuestions
    /\ user_defines = NoDefines
    /\ xml_in \in CsvAttrs
    /\ DEFINES = NoRegistries
    /\ parsed = [raised |-> NoneVal, vals |-> {}]
    /\ last = NoCall

NextEnum ==
    \/ Helpers_parse_enum_set
    \/ Questions_csv_to_enum_set

SpecEnum == InitEnum /\ [][NextEnum]_vars

(***************************************************************************)
(* The encoder: converters of utils/xml_helpers.py and models/questions.py *)
(* and Element.to_xml_element.  A text is a sequence of units, a unit      *)
(* being a character or an indivisible word; "" is <<>>.  An Optional[str] *)
(* is Absent or Some(text), a set field is a set, a tuple field a          *)
(* sequence, a bool | None a Tristate.                                     *)
(***************************************************************************)
\* the code point the unit starts with
ord(u) ==
    CASE u = "," -> 44 [] u = "0" -> 48 [] u = "1" -> 49 [] u = "a" -> 97
      [] u = "before" -> 98 [] u = "execute" -> 101 [] u = "g" -> 103
      [] u = "h" -> 104 [] u = "instead" -> 105 [] u = "survey" -> 115
      [] OTHER -> 120

\* a < b for texts, as str.__lt__
RECURSIVE text_lt(_, _)
text_lt(a, b) ==
    IF b = <<>> THEN FALSE
    ELSE IF a = <<>> THEN TRUE
    ELSE IF ord(Head(a)) # ord(Head(b)) THEN ord(Head(a)) < ord(Head(b))
    ELSE text_lt(Tail(a), Tail(b))

\* sorted(vals)
RECURSIVE sorted(_)
sorted(vals) ==
    IF vals = {} THEN <<>>
    ELSE LET least == CHOOSE v \in vals : \A w \in vals \ {v} : text_lt(v, w)
         IN  <<least>> \o sorted(vals \ {least})

\* ",".join(texts)
RECURSIVE join(_)
join(texts) ==
    IF texts = <<>> THEN <<>>
    ELSE IF Len(texts) = 1 THEN texts[1]
    ELSE texts[1] \o <<",">> \o join(Tail(texts))

\* text.split(","): the pieces between the commas, at least one piece
RECURSIVE split(_, _)
split(text, piece) ==
    IF text = <<>> THEN <<piece>>
    ELSE IF Head(text) = "," THEN <<piece>> \o split(Tail(text), <<>>)
    ELSE split(Tail(text), Append(piece, Head(text)))

\* a str_ that writes str(None) for None
str_of_anything(s) == IF ~s.some THEN Some(<<"None">>) ELSE s

\* str_: None -> None, else str(s)
str_(s) == IF ~s.some THEN Absent ELSE s

\* csv: None for an empty collection, else the sorted values joined by ","
\* (xs holds the .value of each enum member)
csv(xs) == IF xs = {} THEN Absent ELSE Some(join(sorted(xs)))

\* _join_csv_field for a tuple: None when empty, else the items joined
_join_csv_field(v) == IF v = <<>> THEN Absent ELSE Some(join(v))

\* the converter of "style": the value when it is a plain string, else None
style_conv(v) == IF ~v.some \/ ~v.is_str THEN Absent ELSE Some(v.val)

\* an ATTR_MAP entry: field, wire name, converter
AttrEntry(py_name, xml_name, conv) ==
    [py_name |-> py_name, xml_name |-> xml_name, conv |-> conv]

\* Element.ATTR_MAP, Cell.ATTR_MAP, Question.ATTR_MAP: one entry for each
\* converter and wire-name form that the maps use
ElementAttrs ==
    {AttrEntry("label", "label", "str_"),
     AttrEntry("randomize", "randomize", "bool_bit"),
     AttrEntry("style", "style", "style_conv"),
     AttrEntry("where", "where", "csv_enum"),
     AttrEntry("alt", "alt", "str_"),
     AttrEntry("cond", "cond", "str_")}
CellAttrs ==
    ElementAttrs \cup
    {AttrEntry("open", "open", "bool_bit"),
     AttrEntry("groups", "groups", "csv"),
     AttrEntry("value", "value", "str_")}
QuestionAttrs ==
    ElementAttrs \cup
    {AttrEntry("shuffle", "shuffle", "_join_csv_field"),
     AttrEntry("ss_listDisplay", "ss:listDisplay", "str_")}

CellClasses == {"Row", "Col", "Choice"}
QuestionClasses == {"RadioQuestion", "CheckboxQuestion"}

ATTR_MAP(cls) ==
    IF cls \in CellClasses THEN CellAttrs
    ELSE IF cls \in QuestionClasses THEN QuestionAttrs
    ELSE ElementAttrs

\* XML_TAG, or the class name in lower case
tag_of(cls) ==
    CASE cls = "Row" -> "row" [] cls = "Col" -> "col" [] cls = "Choice" -> "choice"
      [] cls = "RadioQuestion" -> "radio" [] cls = "CheckboxQuestion" -> "checkbox"
      [] OTHER -> "element"

\* conv(raw)
convert(conv, raw) ==
    CASE conv = "str_" -> str_(raw)
      [] conv = "bool_bit" -> bool_bit(raw)
      [] conv = "style_conv" -> style_conv(raw)
      [] conv = "csv_enum" -> csv({<<Where[m]>> : m \in raw})
      [] conv = "csv" -> csv(raw)
      [] conv = "_join_csv_field" -> _join_csv_field(raw)

\* an encoded element
EncEl(tag, attrs, text, children) ==
    [tag |-> tag, attrs |-> attrs, text |-> text, children |-> children]

\* Element.to_xml_element: the attributes whose converter gives neither
\* None nor "", the TEXT_FIELD as text, the CHILD_TEXT_MAP fields as children
Element_to_xml_element(self) ==
    LET amap == ATTR_MAP(self.cls)
        out(e) == convert(e.conv, self[e.py_name])
        kept == {e \in amap : emitted(out(e)).some}
        attrs == [n \in {e.xml_name : e \in kept} |->
                    out(CHOOSE e \in kept : e.xml_name = n).val]
        text == IF self.cls \in CellClasses THEN self.content ELSE Absent
        title == IF self.cls \in QuestionClasses /\ emitted(str_(self.title)).some
                 THEN <<EncEl("title", <<>>, str_(self.title), <<>>)>>
                 ELSE <<>>
    IN  EncEl(tag_of(self.cls), attrs, text, title)

\* a Style value of the "style" field: None, a plain string, or a Style object
NoStyle == [some |-> FALSE, val |-> <<>>, is_str |-> FALSE]
StrStyle(text) == [some |-> TRUE, val |-> text, is_str |-> TRUE]
ObjStyle == [some |-> TRUE, val |-> <<>>, is_str |-> FALSE]

\* the fields of an Element-derived object, with their defaults
Defaults ==
    [cls |-> "Element", label |-> Absent, randomize |-> NoneVal, style |-> NoStyle,
     where |-> {}, alt |-> Absent, cond |-> Absent, content |-> Absent,
     open |-> NoneVal, groups |-> {}, value |-> Absent, shuffle |-> <<>>,
     ss_listDisplay |-> Absent, title |-> Absent,
     rows |-> <<>>, cols |-> <<>>, choices |-> <<>>]

\* the object with the given fields, the others at their defaults
With(fields) ==
    [k \in DOMAIN Defaults |-> IF k \in DOMAIN fields THEN fields[k] ELSE Defaults[k]]

\* values that are no survey element: a tuple of rows, a string
TupleValue == [cls |-> "tuple", str |-> <<"(Row(label='br1'),)">>]
StrValue == [cls |-> "str", str |-> <<"hello">>]
SuspendObj == [cls |-> "Suspend", str |-> <<"Suspend", "()">>]
LooprowObj == [cls |-> "Looprow", str |-> <<"Looprow", "(label='lr1')">>]
RowObj == With([cls |-> "Row", label |-> Some(<<"a">>), content |-> Some(<<"a">>)])

\* hasattr(obj, "to_xml_element")
has_to_xml_element(obj) == obj.cls \notin {"tuple", "str"}

\* f"{type(child)}" and f"{child}" as message parts
type_text(child) == <<"<class '", child.cls, "'>">>
str_text(child) == IF child.cls \in CellClasses THEN <<child.cls, "(...)">> ELSE child.str

\* the outcome of an encode call
EncReturned(el) == [raised |-> NoneVal, message |-> <<>>, el |-> el]
EncRaised(type, message) ==
    [raised |-> type, message |-> message, el |-> EncEl("none", <<>>, Absent, <<>>)]

\* child.to_xml_element() of a leaf child that has the method
encode_child(child) ==
    IF child.cls \in CellClasses THEN Element_to_xml_element(child)
    ELSE IF child.cls = "Suspend" THEN EncEl("suspend", <<>>, Absent, <<>>)
    ELSE EncEl("looprow", <<>>, Absent, <<>>)

\* the index of the first child without to_xml_element, 0 if there is none
first_without(children) ==
    IF \A i \in 1..Len(children) : has_to_xml_element(children[i]) THEN 0
    ELSE CHOOSE i \in 1..Len(children) :
            /\ ~has_to_xml_element(children[i])
            /\ \A j \in 1..(i - 1) : has_to_xml_element(children[j])

encode_all(children) == [i \in 1..Len(children) |-> encode_child(children[i])]

\* Python's message for a missing attribute
AttributeErrorOf(child) ==
    EncRaised("AttributeError",
              <<"'", child.cls, "' object has no attribute 'to_xml_element'">>)

\* Block.to_xml_element: any exception of a child becomes
\* TypeError(f"No to_xml_element for {type(child)}")
Block_to_xml_element(self) ==
    LET bad == first_without(self.children)
    IN  IF bad # 0
        THEN EncRaised("TypeError",
                       <<"No to_xml_element for ">> \o type_text(self.children[bad]))
        ELSE EncReturned(EncEl("block", [n \in {"label"} |-> self.label], Absent,
                               encode_all(self.children)))

\* Loop.to_xml_element: any exception of a child becomes
\* TypeError(f"Child of Loop has no to_xml_element method: {child}");
\* the looprows are appended after the children
Loop_to_xml_element(self) ==
    LET bad == first_without(self.children)
    IN  IF bad # 0
        THEN EncRaised("TypeError",
                       <<"Child of Loop has no to_xml_element method: ">>
                           \o str_text(self.children[bad]))
        ELSE EncReturned(EncEl("loop", [n \in {"label"} |-> self.label], Absent,
                               encode_all(self.children) \o encode_all(self.looprows)))

\* Module.to_xml_element: a child of main without the method raises
\* TypeError(f"{obj} has no to_xml_element() method")
Module_to_xml_element(self) ==
    LET module_children == self.main.children
        bad == first_without(module_children)
    IN  IF bad # 0
        THEN EncRaised("TypeError",
                       str_text(module_children[bad])
                           \o <<" has no to_xml_element() method">>)
        ELSE EncReturned(EncEl("block", [n \in {"label"} |-> Some(<<self.project_code>>)],
                               Absent, encode_all(module_children)))

\* _append_children over rows, cols and choices in turn: the first child
\* without the method raises AttributeError
Question_to_xml_element(self) ==
    LET el == Element_to_xml_element(self)
        cells == self.rows \o self.cols \o self.choices
        bad == first_without(cells)
        style == IF self.style.some THEN <<EncEl("style", <<>>, Absent, <<>>)>> ELSE <<>>
    IN  IF self.style.some /\ self.style.is_str
        THEN AttributeErrorOf(StrValue)
        ELSE IF bad # 0
        THEN AttributeErrorOf(cells[bad])
        ELSE EncReturned(EncEl(el.tag, el.attrs, el.text,
                               el.children \o style \o encode_all(cells)))

(***************************************************************************)
(* The encoder as a state machine: an object is given and encoded.         *)
(***************************************************************************)
MaxKids == 2

OptTexts == {Absent, Some(<<>>), Some(<<"a">>)}

ElementNodes ==
    {With([cls |-> "Element", label |-> Some(<<"a">>), randomize |-> r, where |-> w,
           alt |-> a, style |-> s]) :
        r \in Tristate, w \in SUBSET {"EXECUTE", "SURVEY"}, a \in OptTexts,
        s \in {NoStyle, StrStyle(<<>>), StrStyle(<<"a">>), ObjStyle}}
CellNodes ==
    {With([cls |-> c, label |-> Some(<<"a">>), content |-> t, open |-> o,
           groups |-> g, value |-> v]) :
        c \in {"Row", "Col"}, t \in {Absent, Some(<<"a">>)}, o \in Tristate,
        g \in SUBSET {<<>>, <<"g">>, <<"h">>}, v \in {Absent, Some(<<"0">>)}}
QuestionNodes ==
    {With([cls |-> "RadioQuestion", label |-> Some(<<"a">>), title |-> Some(<<"a">>),
           shuffle |-> sh, ss_listDisplay |-> d, cond |-> c, style |-> s]) :
        sh \in {<<>>, << <<>> >>, << <<"g">> >>, << <<"g">>, <<"h">> >>},
        d \in OptTexts, c \in OptTexts, s \in {NoStyle, ObjStyle}}

Kids(leaves) == UNION {[1..k -> leaves] : k \in 0..MaxKids}

BlockNodes ==
    {[cls |-> "Block", label |-> Some(<<"a">>), children |-> c] :
        c \in Kids({SuspendObj, TupleValue, StrValue})}
LoopNodes ==
    {[cls |-> "Loop", label |-> Some(<<"a">>), children |-> c, looprows |-> l] :
        c \in Kids({SuspendObj, TupleValue, StrValue}), l \in {<<>>, <<LooprowObj>>}}
ModuleNodes ==
    {[cls |-> "Module", project_code |-> "a", main |-> [children |-> c]] :
        c \in Kids({SuspendObj, TupleValue, StrValue})}
QuestionWithCells ==
    {With([cls |-> "CheckboxQuestion", label |-> Some(<<"a">>), title |-> Some(<<"a">>),
           rows |-> IF f = "rows" THEN c ELSE <<>>,
           cols |-> IF f = "cols" THEN c ELSE <<>>,
           choices |-> IF f = "choices" THEN c ELSE <<>>]) :
        f \in {"rows", "cols", "choices"}, c \in Kids({RowObj, TupleValue, StrValue})}

NoEncoding == EncReturned(EncEl("none", <<>>, Absent, <<>>))

Encoder_Element ==
    /\ parsed.cls \in {"Element"} \cup CellClasses
    /\ xml_in' = EncReturned(Element_to_xml_element(parsed))
    /\ last' = Call("Element.to_xml_element", NoArgs, xml_in, NoneVal, 0)
    /\ UNCHANGED <<modules, main, qs, user_defines, DEFINES, parsed>>

Encoder_Question ==
    /\ parsed.cls \in QuestionClasses
    /\ xml_in' = Question_to_xml_element(parsed)
    /\ last' = Call("Question.to_xml_element", NoArgs, xml_in,
                    Question_to_xml_element(parsed).raised, 0)
    /\ UNCHANGED <<modules, main, qs, user_defines, DEFINES, parsed>>

Encoder_Block ==
    /\ parsed.cls = "Block"
    /\ xml_in' = Block_to_xml_element(parsed)
    /\ last' = Call("Block.to_xml_element", NoArgs, xml_in,
                    Block_to_xml_element(parsed).raised, 0)
    /\ UNCHANGED <<modules, main, qs, user_defines, DEFINES, parsed>>

Encoder_Loop ==
    /\ parsed.cls = "Loop"
    /\ xml_in' = Loop_to_xml_element(parsed)
    /\ last' = Call("Loop.to_xml_element", NoArgs, xml_in,
                    Loop_to_xml_element(parsed).raised, 0)
    /\ UNCHANGED <<modules, main, qs, user_defines, DEFINES, parsed>>

Encoder_Module ==
    /\ parsed.cls = "Module"
    /\ xml_in' = Module_to_xml_element(parsed)
    /\ last' = Call("Module.to_xml_element", NoArgs, xml_in,
                    Module_to_xml_element(parsed).raised, 0)
    /\ UNCHANGED <<modules, main, qs, user_defines, DEFINES, parsed>>

InitEncode ==
    /\ modules = <<>>
    /\ main = [m \in ModIds |-> EmptyMain]
    /\ qs = NoQuestions
    /\ user_defines = NoDefines
    /\ xml_in = NoEncoding
    /\ DEFINES = NoRegistries
    /\ parsed \in ElementNodes \cup CellNodes \cup QuestionNodes \cup BlockNodes
                    \cup LoopNodes \cup ModuleNodes \cup QuestionWithCells
    /\ last = NoCall

NextEncode ==
    \/ Encoder_Element
    \/ Encoder_Question
    \/ Encoder_Block
    \/ Encoder_Loop
    \/ Encoder_Module

SpecEncode == InitEncode /\ [][NextEncode]_vars

(***************************************************************************)
(* Decoding what was encoded: parse_col and parse_style of                 *)
(* parsing/xml_parser.py against Element.to_xml_element and                *)
(* Style.to_xml_element.  A document element has the shape of an encoded   *)
(* one.                                                                    *)
(***************************************************************************)
Mode == [INSTEAD |-> "instead", BEFORE |-> "before", AFTER |-> "after"]

\* _attr: the attribute of that name, None when the element has none
_attr(el, name) == IF name \in DOMAIN el.attrs THEN Some(el.attrs[name]) ELSE Absent

\* set(seq)
pieces(seq) == {seq[i] : i \in 1..Len(seq)}

\* the outcome of a decode call
Decoded(obj) == [raised |-> NoneVal, obj |-> obj]
DecodeRaised(type) == [raised |-> type, obj |-> [cls |-> "none"]]

\* parse_col: _attr(col_el, "groups").split(",") raises AttributeError
\* when there is no groups attribute
parse_col(col_el) ==
    LET groups == _attr(col_el, "groups")
    IN  IF ~groups.some THEN DecodeRaised("AttributeError")
        ELSE Decoded(With([cls |-> "Col",
                           label |-> _attr(col_el, "label"),
                           content |-> col_el.text,
                           cond |-> _attr(col_el, "cond"),
                           alt |-> _attr(col_el, "alt"),
                           randomize |-> _bit(_attr(col_el, "randomize")),
                           groups |-> pieces(split(groups.val, <<>>))]))

\* a Style object
StyleObj(name, label, cond, mode, content) ==
    [cls |-> "Style", name |-> name, label |-> label, cond |-> cond,
     mode |-> mode, content |-> content]

\* parse_style: style_el.text.strip() raises AttributeError without text
parse_style(style_el) ==
    LET mode == _parse_enum_set(_attr(style_el, "mode"), Mode)
    IN  IF mode.raised # NoneVal THEN DecodeRaised(mode.raised)
        ELSE IF ~style_el.text.some THEN DecodeRaised("AttributeError")
        ELSE Decoded(StyleObj(_attr(style_el, "name"), _attr(style_el, "label"),
                              _attr(style_el, "cond"), mode.vals,
                              Some(strip(style_el.text.val))))

\* Style.to_xml_element: name, label, cond, content when neither None nor
\* ""; mode is not written; the text is the content
Style_to_xml_element(self) ==
    LET all_attrs == [name |-> self.name, label |-> self.label, cond |-> self.cond,
                      content |-> self.content]
        kept == {k \in DOMAIN all_attrs : emitted(all_attrs[k]).some}
    IN  EncEl("style", [k \in kept |-> all_attrs[k].val], self.content, <<>>)

\* _PARSERS[tag](xml_elm) for the two tags
decode(xml_elm) ==
    IF xml_elm.tag = "col" THEN parse_col(xml_elm) ELSE parse_style(xml_elm)

\* obj.to_xml_element()
encode(obj) ==
    IF obj.cls = "Style" THEN Style_to_xml_element(obj) ELSE Element_to_xml_element(obj)

\* the attributes that are present
AttrsOf(pairs) ==
    LET present == {p \in pairs : p[2].some}
    IN  [n \in {p[1] : p \in present} |-> (CHOOSE p \in present : p[1] = n)[2].val]

ColDocuments ==
    {EncEl("col",
           AttrsOf({<<"label", Some(<<"a">>)>>, <<"alt", a>>, <<"randomize", r>>,
                    <<"groups", g>>}),
           t, <<>>) :
        a \in OptTexts,
        r \in {Absent, Some(<<"1">>), Some(<<"0">>), Some(<<" ", "1">>)},
        g \in {Absent, Some(<<>>), Some(<<"g">>), Some(<<"h", ",", "g">>)},
        t \in {Absent, Some(<<"a">>)}}
StyleDocuments ==
    {EncEl("style",
           AttrsOf({<<"name", Some(<<"a">>)>>, <<"cond", c>>, <<"mode", m>>}),
           t, <<>>) :
        c \in {Absent, Some(<<"a">>)},
        m \in {Absent, Some(<<Part("instead", FALSE)>>),
               Some(<<Part("instead", FALSE), Part("before", TRUE)>>)},
        t \in {Absent, Some(<<"a">>), Some(<<" ", "a">>)}}

NotDecoded == DecodeRaised(NoneVal)

Codec_decode ==
    /\ last.op \in {"init", "encode"}
    /\ parsed' = decode(xml_in)
    /\ last' = Call("decode",
                    [of_encoding |-> last.op = "encode",
                     x |-> IF last.op = "encode" THEN last.args.x ELSE [cls |-> "none"]],
                    xml_in, decode(xml_in).raised, 0)
    /\ UNCHANGED <<modules, main, qs, user_defines, xml_in, DEFINES>>

Codec_encode ==
    /\ last.op = "decode"
    /\ ~last.args.of_encoding
    /\ parsed.raised = NoneVal
    /\ xml_in' = encode(parsed.obj)
    /\ last' = Call("encode", [x |-> parsed.obj], xml_in, NoneVal, 0)
    /\ UNCHANGED <<modules, main, qs, user_defines, DEFINES, parsed>>

InitCodec ==
    /\ modules = <<>>
    /\ main = [m \in ModIds |-> EmptyMain]
    /\ qs = NoQuestions
    /\ user_defines = NoDefines
    /\ xml_in \in ColDocuments \cup StyleDocuments
    /\ DEFINES = NoRegistries
    /\ parsed = NotDecoded
    /\ last = NoCall

NextCodec ==
    \/ Codec_decode
    \/ Codec_encode

SpecCodec == InitCodec /\ [][NextCodec]_vars

(***************************************************************************)
(* The editable templates of utils/editables.py.  A token is FixedText     *)
(* (text) or EditableText (name, value, validator, error); was_set records *)
(* that a value was stored in the token after it was created.              *)
(***************************************************************************)
FixedText(text) ==
    [kind |-> "fixed", text |-> text, name |-> <<>>, value |-> <<>>,
     validator |-> NoneVal, error |-> Absent, was_set |-> FALSE]

\* EditableText(name = name): value "", no validator, no error
EditableText(name) ==
    [kind |-> "editable", text |-> <<>>, name |-> name, value |-> <<>>,
     validator |-> NoneVal, error |-> Absent, was_set |-> FALSE]

\* the first position at or after from where pat occurs in text, 0 if none
RECURSIVE find(_, _, _)
find(text, pat, from) ==
    IF from + Len(pat) - 1 > Len(text) THEN 0
    ELSE IF SubSeq(text, from, from + Len(pat) - 1) = pat THEN from
    ELSE find(text, pat, from + 1)

\* _split_template: re.split of escape(start) + "(.*?)" + escape(end); the
\* even parts are FixedText unless empty, the odd parts EditableText named
\* by the stripped part
RECURSIVE _split_template(_, _, _)
_split_template(raw, start, end) ==
    LET i == find(raw, start, 1)
        j == IF i = 0 THEN 0 ELSE find(raw, end, i + Len(start))
        fixed(part) == IF part = <<>> THEN <<>> ELSE <<FixedText(part)>>
    IN  IF i = 0 \/ j = 0 THEN fixed(raw)
        ELSE fixed(SubSeq(raw, 1, i - 1))
               \o <<EditableText(strip(SubSeq(raw, i + Len(start), j - 1)))>>
               \o _split_template(SubSeq(raw, j + Len(end), Len(raw)), start, end)

\* EditableTemplate(raw_template, start, end) after __post_init__
EditableTemplate(raw_template, start, end) ==
    [raw_template |-> raw_template, start |-> start, end |-> end,
     tokens |-> _split_template(raw_template, start, end)]

\* editables: {t.name: t for t in tokens if EditableText}, as the index of
\* the token each name maps to, the last one of that name
editables(self) ==
    LET named(n) == {i \in 1..Len(self.tokens) :
                        self.tokens[i].kind = "editable" /\ self.tokens[i].name = n}
        names == {self.tokens[i].name :
                     i \in {k \in 1..Len(self.tokens) : self.tokens[k].kind = "editable"}}
    IN  [n \in names |-> CHOOSE i \in named(n) : \A k \in named(n) : k <= i]

\* validator(new_value) of the validators of the model
validates(validator, new_value) == validator = "is_v" => new_value = <<"v">>

\* an EditableText.set that stores the value before it validates
set_storing(self, new_value) ==
    IF self.validator # NoneVal /\ ~validates(self.validator, new_value)
    THEN [self EXCEPT !.value = new_value, !.was_set = TRUE,
                      !.error = Some(<<"Invalid value for '">> \o self.name \o <<"'.">>)]
    ELSE [self EXCEPT !.value = new_value, !.error = Absent, !.was_set = TRUE]

\* EditableText.set
set(self, new_value) ==
    IF self.validator # NoneVal /\ ~validates(self.validator, new_value)
    THEN [self EXCEPT !.error = Some(<<"Invalid value for '">> \o self.name \o <<"'.">>)]
    ELSE [self EXCEPT !.value = new_value, !.error = Absent, !.was_set = TRUE]

\* EditableTemplate.set_value: editables[name].value = value for a known name
set_value(self, name, value) ==
    IF name \in DOMAIN editables(self)
    THEN [self EXCEPT !.tokens[editables(self)[name]].value = value,
                      !.tokens[editables(self)[name]].was_set = TRUE]
    ELSE self

\* EditableTemplate.render: t.text for FixedText, else
\* t.value or f"{start}{t.name}{end}"
render(self) ==
    Concat([i \in 1..Len(self.tokens) |->
              LET t == self.tokens[i]
              IN  IF t.kind = "fixed" THEN t.text
                  ELSE IF t.value # <<>> THEN t.value
                  ELSE self.start \o t.name \o self.end])

(***************************************************************************)
(* The templates as a state machine: a template is built, with the class   *)
(* defaults "{" "}" or with the "{{" "}}" of Question, its tokens are given *)
(* a validator or none, and values are set and the template rendered.      *)
(***************************************************************************)
ExampleTemplate ==
    <<"Which ", "{", "{", "gender", "}", "}", " do you ",
      "{", "{", "identify as", "}", "}", "?">>
ExampleRendered ==
    <<"Which ", "genders", " do you ", "{", "{", "identify as", "}", "}", "?">>

RawTemplates ==
    {ExampleTemplate,
     <<"a", "{", "{", "x", "}", "}">>,
     <<"{", "{", " ", "y", " ", "}", "}", "a">>,
     <<"{", "x", "}", "a", "{", "x", "}">>,
     <<"a">>,
     <<"{", "{", "x", "}", "}", "{", "{", "y", "}", "}">>}
Delimiters == {<< <<"{">>, <<"}">> >>, << <<"{", "{">>, <<"}", "}">> >>}
Validators == {NoneVal, "is_v"}
EditNames == {<<"x">>, <<"y">>, <<"gender">>, <<"q">>}
EditValues == {<<>>, <<"v">>, <<"genders">>}

\* the template with the validator on every editable token
WithValidator(template, validator) ==
    [template EXCEPT !.tokens =
        [i \in 1..Len(template.tokens) |->
            IF template.tokens[i].kind = "editable"
            THEN [template.tokens[i] EXCEPT !.validator = validator]
            ELSE template.tokens[i]]]

Template_set_value ==
    \E name \in EditNames, value \in EditValues :
        /\ parsed' = set_value(parsed, name, value)
        /\ last' = Call("set_value", [name |-> name, value |-> value], <<>>, NoneVal, 0)
        /\ UNCHANGED <<modules, main, qs, user_defines, xml_in, DEFINES>>

Token_set ==
    \E i \in 1..Len(parsed.tokens), new_value \in EditValues :
        /\ parsed.tokens[i].kind = "editable"
        /\ parsed' = [parsed EXCEPT !.tokens[i] = set(parsed.tokens[i], new_value)]
        /\ last' = Call("set", [i |-> i, new_value |-> new_value], parsed.tokens[i],
                        NoneVal, 0)
        /\ UNCHANGED <<modules, main, qs, user_defines, xml_in, DEFINES>>

Template_render ==
    /\ xml_in' = render(parsed)
    /\ last' = Call("render",
                    [previous |-> [op |-> last.op,
                                   args |-> IF last.op = "set_value" THEN last.args
                                            ELSE NoArgs]],
                    <<>>, NoneVal, 0)
    /\ UNCHANGED <<modules, main, qs, user_defines, DEFINES, parsed>>

InitEdit ==
    /\ modules = <<>>
    /\ main = [m \in ModIds |-> EmptyMain]
    /\ qs = NoQuestions
    /\ user_defines = NoDefines
    /\ xml_in = <<>>
    /\ DEFINES = NoRegistries
    /\ parsed \in {WithValidator(EditableTemplate(raw, d[1], d[2]), v) :
                      raw \in RawTemplates, d \in Delimiters, v \in Validators}
    /\ last = NoCall

NextEdit ==
    \/ Template_set_value
    \/ Token_set
    \/ Template_render

SpecEdit == InitEdit /\ [][NextEdit]_vars

(***************************************************************************)
(* Question: the title and its editable template.  The first question of  *)
(* qs is the Question under edit: title, editable, editable_obj and        *)
(* historic_title, with the class delimiters "{{" and "}}".                *)
(***************************************************************************)
start_delimiter == <<"{", "{">>
end_delimiter == <<"}", "}">>

\* Question._set_editable_template
_set_editable_template(self) ==
    [self EXCEPT !.editable_obj =
        EditableTemplate(self.title, start_delimiter, end_delimiter)]

\* Question(title = title, editable = editable) after __post_init__
Question(title, editable) ==
    _set_editable_template(
        [title |-> title, editable |-> editable, editable_obj |-> NoneVal,
         historic_title |-> <<>>])

\* Question.render_question
render_question(self) ==
    IF ~self.editable
    THEN self
    ELSE [self EXCEPT
            !.historic_title = IF self.historic_title = <<>> THEN self.title ELSE @,
            !.title = render(self.editable_obj)]

QuestionTitles ==
    {ExampleTemplate, <<"a", "{", "{", "x", "}", "}">>, <<"a">>}

\* question.title = title: a plain attribute assignment
Question_set_title ==
    \E title \in QuestionTitles :
        /\ qs' = [qs EXCEPT ![1].title = title]
        /\ last' = Call("title", [title |-> title], qs[1], NoneVal, 0)
        /\ UNCHANGED <<modules, main, user_defines, xml_in, DEFINES, parsed>>

\* question.editable_obj.set_value(name, value)
Question_set_value ==
    \E name \in EditNames, value \in EditValues :
        /\ qs' = [qs EXCEPT ![1].editable_obj = set_value(@, name, value)]
        /\ last' = Call("set_value", [name |-> name, value |-> value], qs[1], NoneVal, 0)
        /\ UNCHANGED <<modules, main, user_defines, xml_in, DEFINES, parsed>>

Question_render_question ==
    /\ qs' = [qs EXCEPT ![1] = render_question(@)]
    /\ last' = Call("render_question", NoArgs, qs[1], NoneVal, 0)
    /\ UNCHANGED <<modules, main, user_defines, xml_in, DEFINES, parsed>>

InitTitle ==
    /\ modules = <<>>
    /\ main = [m \in ModIds |-> EmptyMain]
    /\ qs \in {[q \in QIds |-> Question(IF q = 1 THEN title ELSE <<"a">>, editable)] :
                  title \in QuestionTitles, editable \in BOOLEAN}
    /\ user_defines = NoDefines
    /\ xml_in = NoXml
    /\ DEFINES = NoRegistries
    /\ parsed = NotParsed
    /\ last = NoCall

NextTitle ==
    \/ Question_set_title
    \/ Question_set_value
    \/ Question_render_question

SpecTitle == InitTitle /\ [][NextTitle]_vars

(***************************************************************************)
(* Object identity in the resolver.  A Row object carries the identity     *)
(* id(row) in the field oid; the tuples and the Define objects are told    *)
(* apart by the rows they hold.  create_define and resolve_inserts are the *)
(* operators above: Python assignment and list.append store references, so *)
(* a row keeps its oid wherever it is put.                                 *)
(***************************************************************************)
\* the Row object with identity oid
Stamp(row, oid) ==
    [k \in DOMAIN row \cup {"oid"} |-> IF k = "oid" THEN oid ELSE row[k]]

StampAll(rows, base) == [i \in 1..Len(rows) |-> Stamp(rows[i], base + i)]

\* the identities of the Row objects in a rows tuple, those inside nested
\* tuples included
RECURSIVE OidsIn(_)
OidsIn(rows) ==
    UNION {IF rows[i].kind = "tuple" THEN OidsIn(rows[i].items) ELSE {rows[i].oid} :
              i \in 1..Len(rows)}

\* the smallest n identities that no object in use has
RECURSIVE FreshOids(_, _, _)
FreshOids(n, used, from) ==
    IF n = 0 THEN <<>>
    ELSE IF from \in used THEN FreshOids(n, used, from + 1)
    ELSE <<from>> \o FreshOids(n - 1, used, from + 1)

\* Survey.create_define, the Row(...) objects of the new Define being new
\* objects
Survey_create_define_objects ==
    \E def_label \in Sources, items \in ItemSeqs(MaxItems) :
        LET r == create_define(modules, main, qs, user_defines, def_label, items)
            used == UNION {OidsIn(qs[q].rows) : q \in QIds}
                      \cup UNION {OidsIn(user_defines[l].rows) :
                                     l \in DOMAIN user_defines \ {def_label}}
            new == FreshOids(Len(items), used, 1)
        IN  /\ user_defines' =
                 IF r.raised # NoneVal THEN user_defines
                 ELSE [r.user_defines EXCEPT
                         ![def_label].rows =
                             [i \in 1..Len(items) |-> Stamp(@[i], new[i])]]
            /\ last' = Call("create_define", [def_label |-> def_label, items |-> items],
                            user_defines, r.raised, 0)
            /\ UNCHANGED <<modules, main, qs, xml_in, DEFINES, parsed>>

InitShare ==
    /\ modules = <<1, 2>>
    /\ main = ResolveMains
    /\ qs \in {[q \in QIds |->
                   [title |-> title_of[q],
                    rows |-> IF q = 1 THEN StampAll(r1, 0)
                             ELSE IF q = 2 THEN StampAll(r2, MaxRows)
                             ELSE StampAll(<<DefineRef("CATEGORIES")>>, 2 * MaxRows),
                    historic_define_refs |-> Absent]] :
                r1 \in RowSeqs(MaxRows), r2 \in SecondRows}
    /\ user_defines = NoDefines
    /\ xml_in = NoXml
    /\ DEFINES = NoRegistries
    /\ parsed = NotParsed
    /\ last = NoCall

NextShare ==
    \/ Survey_create_define_objects
    \/ Survey_resolve_inserts

SpecShare == InitShare /\ [][NextShare]_vars

(***************************************************************************)
(* Properties of the module list.                                          *)
(***************************************************************************)
CodesOf(ms) == {project_code(ms[i]) : i \in 1..Len(ms)}
Elems(seq) == {seq[i] : i \in 1..Len(seq)}
NoRepeats(seq) == \A i, j \in 1..Len(seq) : seq[i] = seq[j] => i = j

\* order is a permutation of exactly the project codes of ms
IsPermutation(order, ms) ==
    /\ Len(order) = Len(ms)
    /\ NoRepeats(order)
    /\ Elems(order) = CodesOf(ms)

SurveyOps == {"add", "insert", "remove_at", "remove", "move", "move_by_code",
              "swap", "reorder"}

\* C1: in every state reachable from an empty Survey by add, insert, remove,
\* remove_at, move, move_by_code, swap and reorder calls (raising ones
\* included), no two modules in Survey.modules have the same project_code.
C1_UniqueProjectCodes ==
    \A i, j \in 1..Len(modules) :
        project_code(modules[i]) = project_code(modules[j]) => i = j

\* a raising call made on a survey that holds two modules
C1_Witness ==
    /\ last.op \in SurveyOps
    /\ last.raised # NoneVal
    /\ Len(modules) >= 2

\* C2: add(m) and insert(i, m) made while a module of the survey has m's
\* project_code raise ValueError and leave the module list exactly as it was.
C2_DuplicateRejected ==
    (last.op \in {"add", "insert"}
        /\ dup_check(last.before, project_code(last.args.module)))
    => (last.raised = "ValueError" /\ modules = last.before)

\* an insert of a second Module object carrying a project code already there
C2_Witness ==
    /\ last.op = "insert"
    /\ last.raised = "ValueError"
    /\ \E i \in 1..Len(modules) :
          /\ modules[i] # last.args.module
          /\ project_code(modules[i]) = project_code(last.args.module)

\* C3: reorder(seq) raises ValueError and leaves the module order unchanged
\* for every seq that is not a permutation of the current project codes,
\* one-element sequences and one-module surveys included.
C3_NonPermutationRaises ==
    (last.op = "reorder"
        /\ ~IsPermutation(last.args.project_code_order, last.before))
    => (last.raised = "ValueError" /\ modules = last.before)

\* C4: when seq is a permutation of the current project codes, reorder(seq)
\* returns, the i-th module then has project_code seq[i], and the survey
\* holds exactly the Module objects it held before, each once.
C4_ReorderExact ==
    (last.op = "reorder"
        /\ IsPermutation(last.args.project_code_order, last.before))
    => /\ last.raised = NoneVal
       /\ Len(modules) = Len(last.args.project_code_order)
       /\ \A i \in 1..Len(modules) :
             project_code(modules[i]) = last.args.project_code_order[i]
       /\ Elems(modules) = Elems(last.before)
       /\ NoRepeats(modules)

\* a permutation that really changes the order
C4_Witness ==
    /\ last.op = "reorder"
    /\ IsPermutation(last.args.project_code_order, last.before)
    /\ Len(modules) >= 2
    /\ modules # last.before

(***************************************************************************)
(* Properties of deletion.                                                 *)
(***************************************************************************)
Below(m_main) == iter_objects_from(m_main.children)

Matching(match, nodes) == SelectSeq(nodes, LAMBDA x : Match(match, x))

RECURSIVE SumSizes(_)
SumSizes(nodes) ==
    IF nodes = <<>> THEN 0
    ELSE Len(iter_objects_from(<<Head(nodes)>>)) + SumSizes(Tail(nodes))

IsDelete == last.op \in {"delete_object", "delete_question_by_title"}

\* C5: after delete_object / delete_question_by_title no node satisfying
\* the match remains below the module's main block, at any depth through
\* Block and Loop, and the returned count is the number of matching nodes
\* that were removed (the nodes that left the tree are exactly these and
\* the nodes below them).
C5_PruneComplete ==
    IsDelete =>
        LET before == Below(last.before)
            after == Below(main[last.args.module])
            hit == Matching(last.args.match, before)
        IN  /\ Matching(last.args.match, after) = <<>>
            /\ last.ret = Len(hit)
            /\ Len(before) - Len(after) = SumSizes(hit)

\* a Question below a Loop below a Block was deleted
C5_Witness ==
    /\ IsDelete
    /\ last.ret >= 1
    /\ \E i, j \in 1..Len(last.before.children) :
          LET b == last.before.children[i]
          IN  /\ b.kind = "Block"
              /\ j <= Len(b.children)
              /\ b.children[j].kind = "Loop"
              /\ Matching(last.args.match, b.children[j].children) # <<>>

(***************************************************************************)
(* Properties of the resolver.                                             *)
(***************************************************************************)
SurveyQuestionIds == Elems(Survey_questions(modules, main))

\* the DefineRefs of a question whose source is an editable label
editable_refs(question) ==
    SelectSeq(define_refs(question), LAMBDA r : Editable(r.source))

\* the rows of the user Defines the references name, one after the other
ResolvedRows(refs) == Concat([i \in 1..Len(refs) |-> user_defines[refs[i].source].rows])

\* C6: after a successful resolve_inserts, the rows of every question that
\* held a DefineRef of an editable label are Row objects of the referenced
\* user Defines, in the Defines' row order: a flat sequence of rows.
C6_RowsAreDefineRows ==
    (last.op = "resolve_inserts" /\ last.raised = NoneVal) =>
        \A q \in SurveyQuestionIds :
            LET refs == editable_refs(last.before[q])
            IN  refs # <<>> =>
                  /\ \A i \in 1..Len(qs[q].rows) :
                        /\ qs[q].rows[i].kind = "Row"
                        /\ qs[q].rows[i] \in Elems(ResolvedRows(refs))
                  /\ last.before[q].rows = refs => qs[q].rows = ResolvedRows(refs)

\* C7: the first resolution of a question records the question's complete
\* pre-resolution rows tuple, and a record once made is never changed by a
\* later resolve_inserts call.
C7_HistoricIsAllRows ==
    last.op = "resolve_inserts" =>
        \A q \in SurveyQuestionIds :
            /\ (~last.before[q].historic_define_refs.some
                    /\ qs[q].historic_define_refs.some)
                => qs[q].historic_define_refs.val = last.before[q].rows
            /\ last.before[q].historic_define_refs.some
                => qs[q].historic_define_refs = last.before[q].historic_define_refs

\* C8: a second resolve_inserts call right after a first one (same
\* user_defines) ends the way the first did and leaves every question's
\* rows and historic record as the first call left them.
C8_ResolveIdempotent ==
    (last.op = "resolve_inserts" /\ last.args.previous.op = "resolve_inserts") =>
        /\ qs = last.before
        /\ last.raised = last.args.previous.raised

\* a second call after a first one that resolved a question
C8_Witness ==
    /\ last.op = "resolve_inserts"
    /\ last.args.previous.op = "resolve_inserts"
    /\ last.raised = NoneVal
    /\ \E q \in SurveyQuestionIds : qs[q].historic_define_refs.some

\* C9: resolve_inserts raises ValueError exactly when some label of
\* required_defines_sources has no entry in user_defines at the call.
C9_RaisesIffRequiredMissing ==
    last.op = "resolve_inserts" =>
        /\ last.raised \in {NoneVal, "ValueError"}
        /\ last.raised = "ValueError"
            <=> \E l \in required_defines_sources(modules, main, last.before) :
                    l \notin DOMAIN user_defines

\* a call that raises although one of the required defines was created
C9_Witness ==
    /\ last.op = "resolve_inserts"
    /\ last.raised = "ValueError"
    /\ DOMAIN user_defines # {}

(***************************************************************************)
(* Properties of the decoder.                                              *)
(***************************************************************************)
\* what the row collection decodes to when an <insert> becomes a placeholder
RECURSIVE RowsWithPlaceholders(_)
RowsWithPlaceholders(children) ==
    IF children = <<>> THEN <<>>
    ELSE LET child == Head(children)
             here == IF child.tag = "row" THEN <<Row(child.label, child.text)>>
                     ELSE IF child.tag = "insert" THEN <<DefineRef(child.source)>>
                     ELSE <<>>
         IN  here \o RowsWithPlaceholders(Tail(children))

\* the rows are well formed and every <insert> names a source
Decodable(children) ==
    \A i \in 1..Len(children) :
        /\ children[i].tag = "row" => children[i].groups
        /\ children[i].tag = "insert" => children[i].source # NoneVal

HasInsert(children) == \E i \in 1..Len(children) : children[i].tag = "insert"

\* C10: decoding a row collection with an <insert source=L> child does not
\* fail, whether or not a Define labelled L is registered, and yields a
\* DefineRef carrying L at the insert's position instead of the Define's rows.
C10_InsertYieldsDefineRef ==
    (last.op = "parse_rows" /\ Decodable(xml_in.children) /\ HasInsert(xml_in.children)) =>
        /\ parsed.raised = NoneVal
        /\ parsed.rows = RowsWithPlaceholders(xml_in.children)

(***************************************************************************)
(* Properties of the tree decoder.                                         *)
(***************************************************************************)
DecodeOps == {"parse_survey", "load_module_from_project", "element_from_xml_element"}

\* the <define> elements of the document, in document order
DocDefines == SelectSeq(iter(xml_in), LAMBDA e : e.tag = "define")

\* C11: when parse_survey, or parse_block as load_module_from_project calls
\* it, decodes an <insert> referencing L, every <define label=L> of the
\* document is in the registry under L with its decoded rows.
C11_DefinesRegisteredBeforeInsert ==
    last.op \in {"parse_survey", "load_module_from_project"} =>
        \A i \in 1..Len(parsed.inserts), j \in 1..Len(DocDefines) :
            DocDefines[j].label = parsed.inserts[i] =>
                /\ DocDefines[j].label \in DOMAIN DEFINES["xml_parser"]
                /\ DEFINES["xml_parser"][DocDefines[j].label].rows
                     = parse_each_row(DocDefines[j].children, 1, <<>>).rows

\* the container objects mirror the document: one child per dispatched XML
\* child, in document order; a loop's looprows are its looprow children
RECURSIVE Faithful(_, _)
Faithful(obj, el) ==
    /\ obj.kind = el.tag
    /\ obj.label = el.label
    /\ el.tag \in {"block", "loop"} =>
        LET disp == SelectSeq(el.children, LAMBDA e : e.tag \in PARSERS)
            lrs == IF el.tag = "loop"
                   THEN SelectSeq(el.children, LAMBDA e : e.tag = "looprow")
                   ELSE <<>>
        IN  /\ Len(disp) + Len(lrs) = Len(el.children)
            /\ Len(obj.children) = Len(disp)
            /\ \A i \in 1..Len(disp) : Faithful(obj.children[i], disp[i])
            /\ Len(obj.looprows) = Len(lrs)
            /\ \A i \in 1..Len(lrs) :
                 obj.looprows[i].kind = "looprow" /\ obj.looprows[i].label = lrs[i].label

\* some block or loop at or below el has a child no parser is registered for
AnyUnknownChild(el) ==
    \E i \in 1..Len(iter(el)) :
        LET c == iter(el)[i]
        IN  /\ c.tag \in {"block", "loop"}
            /\ \E k \in 1..Len(c.children) :
                 /\ c.children[k].tag \notin PARSERS
                 /\ ~(c.tag = "loop" /\ c.children[k].tag = "looprow")

RECURSIVE PathToUnknown(_, _, _)
PathToUnknown(el, k, above) ==
    IF k > Len(el.children) THEN <<>>
    ELSE LET child == el.children[k]
             here == Append(above, Entry(el))
         IN  IF child.tag \notin PARSERS /\ ~(el.tag = "loop" /\ child.tag = "looprow")
             THEN here
             ELSE LET below == IF child.tag \in {"block", "loop"}
                               THEN PathToUnknown(child, 1, here)
                               ELSE <<>>
                  IN  IF below # <<>> THEN below
                      ELSE PathToUnknown(el, k + 1, above)

\* C13: an unknown-tag error of element_from_xml_element, parse_survey or a
\* direct parse_block call carries the entries (tag and label) of all the
\* elements from the outermost decoded one down to the container of the
\* offending child, in nesting order.
C13_ErrorCarriesAncestorPath ==
    (last.op \in DecodeOps /\ parsed.raised # NoneVal /\ parsed.named # <<>>
        /\ parsed.named[1].tag # "survey") =>
        LET expected == PathToUnknown(find_block(xml_in), 1, <<>>)
        IN  \/ \E i \in 1..Len(parsed.paths) : parsed.paths[i] = expected
            \/ parsed.named = expected

(***************************************************************************)
(* Properties of the attribute helpers.                                    *)
(***************************************************************************)
\* decoding what the encoder wrote for b gives b back
BitRoundTrip ==
    (last.op = "_bit" /\ last.args.encoded) => parsed.value = last.args.b

\* C14 as stated: _bit is True for the value "1", False for any other
\* present value, None for an absent attribute; and _bit of what bool_bit
\* emits for b is b.
C14_BitExactlyOne ==
    /\ last.op = "_bit" =>
         parsed.value = IF ~last.before.some THEN NoneVal
                        ELSE IF last.before.val = <<"1">> THEN "True" ELSE "False"
    /\ BitRoundTrip

\* C14 amended: _bit is True for a value that is "1" once surrounding
\* whitespace is stripped, False for any other present value, None for an
\* absent attribute; and _bit of what bool_bit emits for b is b.
C14_BitStrippedOne ==
    /\ last.op = "_bit" =>
         parsed.value = IF ~last.before.some THEN NoneVal
                        ELSE IF strip(last.before.val) = <<"1">> THEN "True" ELSE "False"
    /\ BitRoundTrip

\* _bit read a value that is "1" only after stripping, and gave True
C14_Witness ==
    /\ last.op = "_bit"
    /\ last.before.some
    /\ last.before.val # <<"1">>
    /\ parsed.value = "True"

(***************************************************************************)
(* Properties of the enum conversions.                                     *)
(***************************************************************************)
\* the words of the model in lower case
LowerWord(w) ==
    IF w = "EXECUTE" THEN "execute" ELSE IF w = "Survey" THEN "survey" ELSE w

\* the members whose name or value is the token, case ignored (the names of
\* Where are its values in upper case)
MatchesIgnoringCase(enum_class, p) ==
    {n \in DOMAIN enum_class : LowerWord(p) = enum_class[n]}

\* C18: decoding a comma-separated attribute against a closed enum matches
\* each token case-insensitively by member name or value, keeps a token that
\* matches no member verbatim, and never fails because of such a token.
C18_UnmatchedTokensKept ==
    (last.op \in {"_parse_enum_set", "_csv_to_enum_set"} /\ last.before.some) =>
        LET tokens == parts_of(last.before.val)
        IN  /\ parsed.raised = NoneVal
            /\ \A i \in 1..Len(tokens) :
                 IF MatchesIgnoringCase(Where, tokens[i]) = {}
                 THEN RawToken(tokens[i]) \in parsed.vals
                 ELSE \E n \in MatchesIgnoringCase(Where, tokens[i]) :
                         Member(n) \in parsed.vals

(***************************************************************************)
(* Properties of the encoder.                                              *)
(***************************************************************************)
\* the field holds None, or an empty set, tuple or string
Unset(conv, raw) ==
    CASE conv = "str_" -> ~raw.some \/ raw.val = <<>>
      [] conv = "bool_bit" -> raw = NoneVal
      [] conv = "style_conv" -> ~raw.some \/ (raw.is_str /\ raw.val = <<>>)
      [] conv = "csv_enum" -> raw = {}
      [] conv = "csv" -> raw = {}
      [] conv = "_join_csv_field" -> raw = <<>>

\* C15: for every entry of the attribute map of an encoded Element, Cell or
\* Question, an unset field (None, empty set, tuple or string) gives no
\* attribute of the entry's wire name; the attribute is there exactly when
\* the converter yields a non-empty string; its value is never "None" or "".
C15_AbsenceSuppressed ==
    (last.op \in {"Element.to_xml_element", "Question.to_xml_element"}
        /\ xml_in.raised = NoneVal) =>
        \A e \in ATTR_MAP(parsed.cls) :
            LET out == convert(e.conv, parsed[e.py_name])
                attrs == xml_in.el.attrs
            IN  /\ Unset(e.conv, parsed[e.py_name]) => e.xml_name \notin DOMAIN attrs
                /\ e.xml_name \in DOMAIN attrs <=> (out.some /\ out.val # <<>>)
                /\ e.xml_name \in DOMAIN attrs =>
                     attrs[e.xml_name] \notin {<<>>, <<"None">>}

\* a row with unset alt, open and groups and a set value was encoded: value
\* is written, the others are not
C15_Witness ==
    /\ last.op = "Element.to_xml_element"
    /\ parsed.cls = "Row"
    /\ ~parsed.alt.some /\ parsed.open = NoneVal /\ parsed.groups = {}
    /\ parsed.value.some
    /\ DOMAIN xml_in.el.attrs = {"label", "value"}

\* the child collections of a node
ChildrenOf(node) ==
    IF node.cls = "Module" THEN node.main.children
    ELSE IF node.cls \in QuestionClasses THEN node.rows \o node.cols \o node.choices
    ELSE node.children

\* C16: encoding a Module, Block, Loop or Question with a child that has no
\* to_xml_element raises an error whose message names the type of such a
\* child; the child is never left out silently.
C16_MissingEncoderNamed ==
    (last.op \in {"Module.to_xml_element", "Block.to_xml_element",
                  "Loop.to_xml_element", "Question.to_xml_element"}
        /\ first_without(ChildrenOf(parsed)) # 0) =>
        /\ xml_in.raised \in {"TypeError", "AttributeError"}
        /\ \E k \in 1..Len(ChildrenOf(parsed)), i \in 1..Len(xml_in.message) :
             /\ ~has_to_xml_element(ChildrenOf(parsed)[k])
             /\ xml_in.message[i] = ChildrenOf(parsed)[k].cls

(***************************************************************************)
(* Properties of decoding what was encoded.                                *)
(***************************************************************************)
\* C17: decoding the encoding of a node x that the decoder produced gives a
\* node equal to x: same attributes present and absent with the same
\* values, same enum members.
C17_RoundTrip ==
    (last.op = "decode" /\ last.args.of_encoding) =>
        /\ parsed.raised = NoneVal
        /\ parsed.obj = last.args.x

(***************************************************************************)
(* Properties of the editable templates.                                   *)
(***************************************************************************)
\* what the tokens contribute: the text, the value once one was set, the
\* delimited name while none was
Contributions(self) ==
    Concat([i \in 1..Len(self.tokens) |->
              LET t == self.tokens[i]
              IN  IF t.kind = "fixed" THEN t.text
                  ELSE IF t.was_set THEN t.value
                  ELSE self.start \o t.name \o self.end])

\* C19: render() is the concatenation, in token order, of each FixedText's
\* text, each set EditableText's value and start + name + end for each
\* unset one; the template 'Which {{gender}} do you {{identify as}}?' with
\* only gender set to 'genders' renders 'Which genders do you {{identify as}}?'.
C19_RenderSubstitutesSetValues ==
    last.op = "render" =>
        /\ xml_in = Contributions(parsed)
        /\ (/\ parsed.raw_template = ExampleTemplate
            /\ last.args.previous.op = "set_value"
            /\ last.args.previous.args = [name |-> <<"gender">>, value |-> <<"genders">>]
            /\ \A i \in 1..Len(parsed.tokens) :
                 parsed.tokens[i].was_set => parsed.tokens[i].name = <<"gender">>)
           => xml_in = ExampleRendered

\* C20: EditableText.set(v) does not raise; a rejected v leaves the value as
\* it was and puts a message in error; an accepted v, or any v without a
\* validator, becomes the value and clears error; render() succeeds
\* whatever the tokens hold.
C20_SetRecordsValidationError ==
    /\ last.op = "set" =>
         LET before == last.before
             after == parsed.tokens[last.args.i]
             v == last.args.new_value
         IN  /\ last.raised = NoneVal
             /\ IF before.validator # NoneVal /\ ~validates(before.validator, v)
                THEN after.value = before.value /\ after.error.some
                ELSE after.value = v /\ ~after.error.some
    /\ last.op = "render" => (last.raised = NoneVal /\ xml_in = render(parsed))

\* a validator rejected the new value of a token that held another value
C20_Witness ==
    /\ last.op = "set"
    /\ last.before.validator = "is_v"
    /\ last.before.value = <<"v">>
    /\ last.args.new_value = <<"genders">>
    /\ parsed.tokens[last.args.i].error.some

\* C29: no EditableText holds a value, stored by set or set_value, that its
\* validator rejects.
C29_NoRejectedValueHeld ==
    \A i \in 1..Len(parsed.tokens) :
        LET t == parsed.tokens[i]
        IN  (t.kind = "editable" /\ t.was_set /\ t.validator # NoneVal)
                => validates(t.validator, t.value)

\* C30: a template on which no value has been set renders its raw text.
C30_FreshRenderIsRawText ==
    (last.op = "render"
        /\ \A i \in 1..Len(parsed.tokens) :
             ~parsed.tokens[i].was_set /\ parsed.tokens[i].value = <<>>)
        => xml_in = parsed.raw_template

(***************************************************************************)
(* Further properties of the resolver.                                     *)
(***************************************************************************)
\* C26: a resolve_inserts call that raises has changed no question's rows
\* and no question's historic record.
C26_ResolveAllOrNothing ==
    (last.op = "resolve_inserts" /\ last.raised # NoneVal) => qs = last.before

\* a is b with some entries left out
RECURSIVE IsSubsequence(_, _)
IsSubsequence(a, b) ==
    IF a = <<>> THEN TRUE
    ELSE IF b = <<>> THEN FALSE
    ELSE IF Head(a) = Head(b) THEN IsSubsequence(Tail(a), Tail(b))
    ELSE IsSubsequence(a, Tail(b))

\* the rows resolution has to leave alone: literal rows and placeholders of
\* labels that are not editable
NotToResolve(rows) ==
    SelectSeq(rows, LAMBDA r : r.kind = "Row" \/ (r.kind = "DefineRef" /\ ~Editable(r.source)))

\* C27: after resolve_inserts every literal Row and every DefineRef of a
\* label that is not editable is still in its question's rows, in the same
\* relative order, and a question without a DefineRef of an editable label
\* is unchanged.
C27_ResolveKeepsLiteralRows ==
    last.op = "resolve_inserts" =>
        \A q \in QIds :
            /\ IsSubsequence(NotToResolve(last.before[q].rows), qs[q].rows)
            /\ NotToResolve(last.before[q].rows) = last.before[q].rows
                 => qs[q] = last.before[q]

\* the sources of the DefineRef entries that are still in the rows of the
\* questions of the survey's modules
UnresolvedSources ==
    LET questions == Survey_questions(modules, main)
    IN  {r.source : r \in UNION {{qs[questions[i]].rows[k] :
                                     k \in {j \in 1..Len(qs[questions[i]].rows) :
                                              qs[questions[i]].rows[j].kind = "DefineRef"}} :
                                 i \in 1..Len(questions)}}

\* C28: create_define(L, items) succeeds exactly when L is editable and the
\* source of an unresolved DefineRef of the survey; it then stores the
\* Define whose i-th row is labelled prefix(L)+i with content items[i] under
\* L, replacing an earlier one, and otherwise raises ValueError and leaves
\* user_defines as it was; after a successful resolve_inserts no label is
\* required, and that stays so.
C28_CreateDefineWhenRequired ==
    /\ [](/\ (last.op = "resolve_inserts" /\ last.raised = NoneVal)
               => required_defines_sources(modules, main, qs) = {}
          /\ last.op = "create_define" =>
               LET L == last.args.def_label
                   items == last.args.items
               IN  IF Editable(L) /\ L \in UnresolvedSources
                   THEN /\ last.raised = NoneVal
                        /\ DOMAIN user_defines = DOMAIN last.before \cup {L}
                        /\ \A l \in DOMAIN last.before \ {L} :
                             user_defines[l] = last.before[l]
                        /\ user_defines[L].label = L
                        /\ Len(user_defines[L].rows) = Len(items)
                        /\ \A i \in 1..Len(items) :
                             /\ user_defines[L].rows[i].kind = "Row"
                             /\ user_defines[L].rows[i].label
                                  = ROW_PREFIXES[L] \o ToString(i)
                             /\ user_defines[L].rows[i].content = items[i]
                   ELSE last.raised = "ValueError" /\ user_defines = last.before)
    /\ [][(UnresolvedSources = {} /\ last'.op = "create_define")
            => last'.raised = "ValueError"]_vars

\* a define for BRANDS was created again, replacing the earlier one
C28_Witness ==
    /\ last.op = "create_define"
    /\ last.raised = NoneVal
    /\ last.args.def_label = "BRANDS"
    /\ Len(last.args.items) = 1
    /\ "BRANDS" \in DOMAIN last.before
    /\ "CATEGORIES" \in DOMAIN last.before

(***************************************************************************)
(* Properties of object identity.                                          *)
(***************************************************************************)
\* C24: no Row object is in the rows of two different questions, or in the
\* rows of a question and of a Define.
C24_NoSharedRows ==
    /\ \A q1, q2 \in QIds :
         q1 # q2 => OidsIn(qs[q1].rows) \cap OidsIn(qs[q2].rows) = {}
    /\ \A q \in QIds, l \in DOMAIN user_defines :
         OidsIn(qs[q].rows) \cap OidsIn(user_defines[l].rows) = {}

(***************************************************************************)
(* Properties of the views.                                                *)
(***************************************************************************)
\* the questions of a tree by a depth-first traversal in document order
RECURSIVE QuestionsBelow(_)
QuestionsBelow(node) ==
    IF node.kind = "Question"
    THEN <<node.id>>
    ELSE Concat([i \in 1..Len(node.children) |-> QuestionsBelow(node.children[i])])

\* C21: after any sequence of module list operations and deletions,
\* Survey.questions is the questions of the current trees in document order,
\* module after module in the current module order, and Module.questions is
\* the questions of the module's current tree.
C21_ViewsAreFreshTraversals ==
    /\ Survey_questions(modules, main)
         = Concat([i \in 1..Len(modules) |-> QuestionsBelow(main[modules[i]])])
    /\ \A m \in ModIds : Module_questions(main[m]) = QuestionsBelow(main[m])

\* the question of the second module was deleted, the modules were then put
\* in another order with the second module first, and the question below
\* the Loop of the first module is the survey's only question
C21_Witness ==
    /\ last.op = "reorder"
    /\ last.raised = NoneVal
    /\ modules # last.before
    /\ Len(modules) >= 2
    /\ modules[1] = 2
    /\ main[2] = EmptyMain
    /\ Survey_questions(modules, main) = <<1>>

(***************************************************************************)
(* Properties of the descendant queries.                                   *)
(***************************************************************************)
\* the nodes nested at any depth below a node
RECURSIVE NodesBelow(_)
NodesBelow(node) ==
    UNION {{node.children[i]} \cup NodesBelow(node.children[i]) : i \in 1..Len(node.children)}

\* C25: Module.objects, Module.questions and Loop.questions do not raise,
\* whatever the nesting of Blocks and Loops, and return every matching node
\* nested at any depth below the container.
C25_QueriesReachEveryDepth ==
    /\ last.op = "Module.objects" =>
         \A x \in NodesBelow(last.args.container) : x \in pieces(parsed.rows)
    /\ last.op \in {"Module.questions", "Loop.questions"} =>
         /\ parsed.raised = NoneVal
         /\ \A x \in NodesBelow(last.args.container) :
              x.kind = "Question" => x.id \in pieces(parsed.rows)

(***************************************************************************)
(* Properties of the question title.                                       *)
(***************************************************************************)
\* C22: after any sequence of title assignments, template edits and
\* render_question calls, the editable template of a Question is the one
\* made from its current title: editable_obj.raw_template is title, and the
\* tokens are those the title splits into, with the values set in them.
C22_TemplateFollowsTitle ==
    /\ qs[1].editable_obj.raw_template = qs[1].title
    /\ LET fresh == _split_template(qs[1].title, start_delimiter, end_delimiter)
           tokens == qs[1].editable_obj.tokens
       IN  /\ Len(tokens) = Len(fresh)
           /\ \A i \in 1..Len(fresh) :
                /\ tokens[i].kind = fresh[i].kind
                /\ tokens[i].text = fresh[i].text
                /\ tokens[i].name = fresh[i].name

(***************************************************************************)
(* Properties of the path stack.                                           *)
(***************************************************************************)
\* C23: while a decode call runs, _PARSE_STACK is the stack the call found
\* followed by one entry for each element_from_xml_element call in
\* progress, outermost first; when the call has finished, by returning or
\* by raising, the stack is the stack the call found.
C23_StackFollowsCalls ==
    /\ Len(parsed.stack) = Len(parsed.base) + Len(parsed.frames)
    /\ SubSeq(parsed.stack, 1, Len(parsed.base)) = parsed.base
    /\ \A i \in 1..Len(parsed.frames) :
         parsed.stack[Len(parsed.base) + i] = Entry(parsed.frames[i].el)
    /\ parsed.frames = <<>> => parsed.stack = parsed.base

\* a call that went three calls deep has finished by raising
C23_Witness ==
    /\ last.op = "finally"
    /\ parsed.frames = <<>>
    /\ parsed.exc = "ValueError"
    /\ parsed.deepest >= 3

====
